---------------------------- MODULE Spec2Model ----------------------------
(***************************************************************************)
(* A model of the combat resolution engine of src/combat.cpp: the shape    *)
(* grids (MatrixArea) and their transforms, the direction tables           *)
(* (AreaCombat), the eligibility rules (Combat::canDoCombat) and the       *)
(* single-target and area resolution pipelines (Combat::doCombat,          *)
(* Combat::doTargetCombat, Combat::doAreaCombat).                          *)
(*                                                                         *)
(* C++ containers are indexed from 0; the arrays of the model are          *)
(* functions over 0..n-1.  A pair is a 2-tuple: p[1] is .first and p[2]    *)
(* is .second.                                                             *)
(***************************************************************************)
EXTENDS Integers, Sequences, FiniteSets, TLC

VARIABLES
    g,          \* SpecGrid: the grid the transforms are applied to
    cur,        \* SpecGrid: the grid returned by the last transform
    ops,        \* SpecGrid: the transforms applied so far, in order
    fault,      \* SpecGrid: an out-of-bounds access happened (undefined behaviour)
    tileQ,      \* SpecTile: the arguments of canDoCombat(caster, tile, aggressive)
    tileR,      \* SpecTile: what the call returned, and whether it asked the hook
    cq,         \* SpecCombat: the definition, the world, the caster and the call made
    run,        \* SpecCombat: the map, the conditions and the trace of the resolution
    entQ,       \* SpecEntity: the world and the pair canDoCombat / isProtected is asked about
    entR,       \* SpecEntity: the call made and what it returned
    calcQ,      \* SpecCalc: the inputs one of the numeric steps is applied to
    calcR,      \* SpecCalc: the step applied and what it left
    areaQ,      \* SpecArea: an AreaCombat and the setup calls made on it
    areaR,      \* SpecArea: the last getArea call and the grid it returned
    cbQ,        \* SpecCallback: a scripted callback and the state of its script host
    cbR,        \* SpecCallback: the call made and what it left
    dmgQ,       \* SpecDamage: the definition, the world and the actor getCombatDamage is asked about
    dmgR,       \* SpecDamage: the damage it returned
    listQ,      \* SpecList: the map, the area and the arguments of getCombatArea
    listR       \* SpecList: the list it returned and the map it left

gridVars == <<g, cur, ops, fault>>
tileVars == <<tileQ, tileR>>
combatVars == <<cq, run>>
entityVars == <<entQ, entR>>
calcVars == <<calcQ, calcR>>
areaVars == <<areaQ, areaR>>
callbackVars == <<cbQ, cbR>>
damageVars == <<dmgQ, dmgR>>
listVars == <<listQ, listR>>

vars == <<g, cur, ops, fault, tileQ, tileR, cq, run, entQ, entR, calcQ, calcR,
          areaQ, areaR, cbQ, cbR, dmgQ, dmgR, listQ, listR>>

(***************************************************************************)
(* Bounds of the model.                                                    *)
(***************************************************************************)
MaxRows == 2
MaxCols == 3
MaxApply == 4

(***************************************************************************)
(* MatrixArea: rows, cols, a row-major array of rows*cols cells and the    *)
(* center pair.  getList (src/combat.cpp:61) subtracts center.first from   *)
(* the x coordinate and center.second from the y coordinate, so            *)
(* center = <<x, y>>.                                                      *)
(***************************************************************************)
MatrixArea(center, rows, cols, arr) ==
    [center |-> center, rows |-> rows, cols |-> cols, arr |-> arr]

\* MatrixArea's default constructor: no rows, no columns, no cells.
EmptyMatrix == MatrixArea(<<0, 0>>, 0, 0, <<>>)

\* Container newArr(arr.size()): value-initialized, every cell false.
NewArr(n) == [k \in 0..(n - 1) |-> FALSE]

\* The indices std::slice(start, size, stride) selects, by position.
SliceIdx(start, size, stride) == [k \in 0..(size - 1) |-> start + k * stride]

\* arr[std::slice(...)] of a const valarray: a copy of the selected cells.  A
\* selected index past the end of arr reads whatever follows the array: junk.
ReadSlice(arr, start, size, stride, junk) ==
    [k \in 0..(size - 1) |->
        LET i == start + k * stride
        IN  IF i \in DOMAIN arr THEN arr[i] ELSE junk[i]]

\* newArr[std::slice(...)] = vals: cell by cell.  A selected index past the end
\* of newArr writes outside the array and leaves newArr's cells alone.
WriteSlice(newArr, start, size, stride, vals) ==
    [j \in DOMAIN newArr |->
        IF j >= start /\ (j - start) % stride = 0 /\ (j - start) \div stride < size
        THEN vals[(j - start) \div stride]
        ELSE newArr[j]]

\* Some index of std::slice(start, size, stride) is outside 0..n-1.
SliceOutOfBounds(n, start, size, stride) ==
    \E k \in 0..(size - 1) : start + k * stride >= n

NoJunk == <<>>

RECURSIVE flipLoop(_, _, _)
flipLoop(m, newArr, i) ==
    IF i >= m.rows THEN newArr
    ELSE flipLoop(m,
            WriteSlice(newArr, i * m.cols, m.cols, 1,
                ReadSlice(m.arr, (m.rows - i - 1) * m.cols, m.cols, 1, NoJunk)),
            i + 1)

flip(m) ==
    MatrixArea(<<m.cols - m.center[1] - 1, m.center[2]>>, m.rows, m.cols,
               flipLoop(m, NewArr(m.rows * m.cols), 0))

RECURSIVE mirrorLoop(_, _, _, _)
mirrorLoop(m, newArr, i, junk) ==
    IF i >= m.cols THEN newArr
    ELSE mirrorLoop(m,
            WriteSlice(newArr, i, m.cols, m.rows,
                ReadSlice(m.arr, m.cols - i - 1, m.cols, m.rows, junk)),
            i + 1, junk)

\* junk: the values an out-of-bounds read returns, by index.
mirror(m, junk) ==
    MatrixArea(<<m.center[1], m.rows - m.center[2] - 1>>, m.rows, m.cols,
               mirrorLoop(m, NewArr(m.rows * m.cols), 0, junk))

\* The largest index mirror's slices select: (cols - 1) + (cols - 1) * rows.
mirrorMaxIndex(m) == (m.cols - 1) + (m.cols - 1) * m.rows

\* mirror reads and writes past the end of the arrays when cols > rows.
mirrorOutOfBounds(m) ==
    \E i \in 0..(m.cols - 1) :
        \/ SliceOutOfBounds(m.rows * m.cols, i, m.cols, m.rows)
        \/ SliceOutOfBounds(m.rows * m.cols, m.cols - i - 1, m.cols, m.rows)

\* arr[std::gslice(0, {cols, rows}, {1, cols})]: element i * rows + j of the
\* result is arr[i * 1 + j * cols]; the dimensions handed on are rows, cols.
transpose(m) ==
    MatrixArea(<<m.center[2], m.center[1]>>, m.rows, m.cols,
               [k \in 0..(m.rows * m.cols - 1) |->
                   m.arr[(k \div m.rows) + (k % m.rows) * m.cols]])

RECURSIVE rotate90Loop(_, _, _)
rotate90Loop(m, newArr, i) ==
    IF i >= m.rows THEN newArr
    ELSE rotate90Loop(m,
            WriteSlice(newArr, i, m.cols, m.rows,
                ReadSlice(m.arr, (m.rows - i - 1) * m.cols, m.cols, 1, NoJunk)),
            i + 1)

\* rotate90 with the new origin taken from cols instead of rows.
rotate90_CenterFromCols(m) ==
    MatrixArea(<<m.cols - m.center[2] - 1, m.center[1]>>, m.cols, m.rows,
               rotate90Loop(m, NewArr(m.rows * m.cols), 0))

rotate90(m) ==
    MatrixArea(<<m.rows - m.center[2] - 1, m.center[1]>>, m.cols, m.rows,
               rotate90Loop(m, NewArr(m.rows * m.cols), 0))

\* std::reverse_copy
rotate180(m) ==
    MatrixArea(<<m.cols - m.center[1] - 1, m.rows - m.center[2] - 1>>, m.rows, m.cols,
               [k \in 0..(m.rows * m.cols - 1) |-> m.arr[m.rows * m.cols - 1 - k]])

RECURSIVE rotate270Loop(_, _, _)
rotate270Loop(m, newArr, i) ==
    IF i >= m.cols THEN newArr
    ELSE rotate270Loop(m,
            WriteSlice(newArr, i * m.rows, m.rows, 1,
                ReadSlice(m.arr, m.cols - i - 1, m.rows, m.cols, NoJunk)),
            i + 1)

rotate270(m) ==
    MatrixArea(<<m.center[2], m.cols - m.center[1] - 1>>, m.cols, m.rows,
               rotate270Loop(m, NewArr(m.rows * m.cols), 0))

\* operator()(row, col): arr[row * cols + col]
Cell(m, row, col) == m.arr[row * m.cols + col]

(***************************************************************************)
(* The world the eligibility rules and the resolutions read.  Creatures    *)
(* are named by identifiers (pointer equality is equality of identifiers); *)
(* an absent creature (nullptr) is NoCreature.  W.cr maps each creature to *)
(* the record of the attributes combat.cpp reads through its accessors.  A *)
(* tile is a record of its position, flags and properties.                 *)
(***************************************************************************)
NoCreature == "nullptr"

\* The verdicts the policy hook (g_events) can give.
HookVerdicts == {"RETURNVALUE_NOERROR", "RETURNVALUE_NOTPOSSIBLE"}

\* canDoCombatTile without the early return for privileged players.
canDoCombatTile_NoPrivilege(W, caster, tile, aggressive, hook) ==
    IF tile.blockProjectile THEN [ret |-> "RETURNVALUE_NOTENOUGHROOM", hooked |-> FALSE]
    ELSE IF "FLOORCHANGE" \in tile.flags THEN [ret |-> "RETURNVALUE_NOTENOUGHROOM", hooked |-> FALSE]
    ELSE IF tile.teleport THEN [ret |-> "RETURNVALUE_NOTENOUGHROOM", hooked |-> FALSE]
    ELSE IF caster # NoCreature /\ W.cr[caster].pos[3] < tile.pos[3]
        THEN [ret |-> "RETURNVALUE_FIRSTGODOWNSTAIRS", hooked |-> FALSE]
    ELSE IF caster # NoCreature /\ W.cr[caster].pos[3] > tile.pos[3]
        THEN [ret |-> "RETURNVALUE_FIRSTGOUPSTAIRS", hooked |-> FALSE]
    ELSE IF aggressive /\ "PROTECTIONZONE" \in tile.flags
        THEN [ret |-> "RETURNVALUE_ACTIONNOTPERMITTEDINPROTECTIONZONE", hooked |-> FALSE]
    ELSE [ret |-> hook, hooked |-> TRUE]

\* Combat::canDoCombat(Creature* caster, Tile* tile, bool aggressive).  hook is
\* what eventCreatureOnAreaCombat answers when asked; hooked tells whether it
\* was asked.
canDoCombatTile(W, caster, tile, aggressive, hook) ==
    IF tile.blockProjectile THEN [ret |-> "RETURNVALUE_NOTENOUGHROOM", hooked |-> FALSE]
    ELSE IF "FLOORCHANGE" \in tile.flags THEN [ret |-> "RETURNVALUE_NOTENOUGHROOM", hooked |-> FALSE]
    ELSE IF tile.teleport THEN [ret |-> "RETURNVALUE_NOTENOUGHROOM", hooked |-> FALSE]
    ELSE IF caster # NoCreature /\ W.cr[caster].pos[3] < tile.pos[3]
        THEN [ret |-> "RETURNVALUE_FIRSTGODOWNSTAIRS", hooked |-> FALSE]
    ELSE IF caster # NoCreature /\ W.cr[caster].pos[3] > tile.pos[3]
        THEN [ret |-> "RETURNVALUE_FIRSTGOUPSTAIRS", hooked |-> FALSE]
    ELSE IF caster # NoCreature /\ W.cr[caster].player
                /\ "IgnoreProtectionZone" \in W.cr[caster].flags
        THEN [ret |-> "RETURNVALUE_NOERROR", hooked |-> FALSE]
    ELSE IF aggressive /\ "PROTECTIONZONE" \in tile.flags
        THEN [ret |-> "RETURNVALUE_ACTIONNOTPERMITTEDINPROTECTIONZONE", hooked |-> FALSE]
    ELSE [ret |-> hook, hooked |-> TRUE]

\* Creature::getZone(): the zone of the tile the creature stands on.
getZone(W, c) ==
    IF "PROTECTIONZONE" \in W.cr[c].tileFlags THEN "ZONE_PROTECTION"
    ELSE IF "NOPVPZONE" \in W.cr[c].tileFlags THEN "ZONE_NOPVP"
    ELSE IF "PVPZONE" \in W.cr[c].tileFlags THEN "ZONE_PVP"
    ELSE "ZONE_NORMAL"

\* Creature::isSummon(): the creature has a master.
isSummon(W, c) == W.cr[c].master # NoCreature

\* creature->isSummon() && creature->getMaster()->getPlayer()
ownedByPlayer(W, c) == isSummon(W, c) /\ W.cr[W.cr[c].master].player

\* Combat::isInPvpZone
isInPvpZone(W, attacker, target) ==
    getZone(W, attacker) = "ZONE_PVP" /\ getZone(W, target) = "ZONE_PVP"

\* isProtected looking at the target's level only.
isProtected_TargetLevelOnly(W, attacker, target) ==
    IF W.cr[target].level < W.protectionLevel
        THEN TRUE
    ELSE IF ~W.cr[attacker].allowsPvp \/ ~W.cr[target].allowsPvp
        THEN TRUE
    ELSE IF W.cr[attacker].skull = "SKULL_BLACK" /\ W.cr[attacker].skullTo[target] = "SKULL_NONE"
        THEN TRUE
    ELSE FALSE

\* Combat::isProtected
isProtected(W, attacker, target) ==
    IF W.cr[target].level < W.protectionLevel \/ W.cr[attacker].level < W.protectionLevel
        THEN TRUE
    ELSE IF ~W.cr[attacker].allowsPvp \/ ~W.cr[target].allowsPvp
        THEN TRUE
    ELSE IF W.cr[attacker].skull = "SKULL_BLACK" /\ W.cr[attacker].skullTo[target] = "SKULL_NONE"
        THEN TRUE
    ELSE FALSE

\* canDoCombat(attacker, target), lines 343-401: the rules by kind of target.
\* The result is a rejection, or "pass" when no rule of this part rejects.
canDoCombatByKind(W, attacker, target) ==
    IF W.cr[target].player THEN
        IF "CannotBeAttacked" \in W.cr[target].flags
            THEN "RETURNVALUE_YOUMAYNOTATTACKTHISPLAYER"
        ELSE IF W.cr[attacker].player /\ "CannotAttackPlayer" \in W.cr[attacker].flags
            THEN "RETURNVALUE_YOUMAYNOTATTACKTHISPLAYER"
        ELSE IF W.cr[attacker].player /\ isProtected(W, attacker, target)
            THEN "RETURNVALUE_YOUMAYNOTATTACKTHISPLAYER"
        ELSE IF W.cr[attacker].player /\ "NOPVPZONE" \in W.cr[target].tileFlags
            THEN "RETURNVALUE_ACTIONNOTPERMITTEDINANOPVPZONE"
        ELSE IF W.cr[attacker].player /\ "NOPVPZONE" \in W.cr[attacker].tileFlags
                /\ W.cr[target].tileFlags \cap {"NOPVPZONE", "PROTECTIONZONE"} = {}
            THEN "RETURNVALUE_ACTIONNOTPERMITTEDINANOPVPZONE"
        ELSE IF ownedByPlayer(W, attacker)
                /\ "CannotAttackPlayer" \in W.cr[W.cr[attacker].master].flags
            THEN "RETURNVALUE_YOUMAYNOTATTACKTHISPLAYER"
        ELSE IF ownedByPlayer(W, attacker) /\ "NOPVPZONE" \in W.cr[target].tileFlags
            THEN "RETURNVALUE_ACTIONNOTPERMITTEDINANOPVPZONE"
        ELSE IF ownedByPlayer(W, attacker) /\ isProtected(W, W.cr[attacker].master, target)
            THEN "RETURNVALUE_YOUMAYNOTATTACKTHISPLAYER"
        ELSE "pass"
    ELSE IF W.cr[target].monster THEN
        IF W.cr[attacker].player THEN
            IF "CannotAttackMonster" \in W.cr[attacker].flags
                THEN "RETURNVALUE_YOUMAYNOTATTACKTHISCREATURE"
            ELSE IF ownedByPlayer(W, target) /\ getZone(W, target) = "ZONE_NOPVP"
                THEN "RETURNVALUE_ACTIONNOTPERMITTEDINANOPVPZONE"
            ELSE "pass"
        ELSE IF W.cr[attacker].monster THEN
            IF ~ownedByPlayer(W, target) /\ ~ownedByPlayer(W, attacker)
                THEN "RETURNVALUE_YOUMAYNOTATTACKTHISCREATURE"
            ELSE "pass"
        ELSE "pass"
    ELSE "pass"

\* canDoCombatByWorld asking for the attacker alone to be in a PvP zone.
canDoCombatByWorld_AttackerZoneOnly(W, attacker, target) ==
    IF W.worldType = "WORLD_TYPE_NO_PVP"
            /\ (W.cr[attacker].player \/ ownedByPlayer(W, attacker))
    THEN IF W.cr[target].player /\ getZone(W, attacker) # "ZONE_PVP"
            THEN "RETURNVALUE_YOUMAYNOTATTACKTHISPLAYER"
         ELSE IF ownedByPlayer(W, target) /\ getZone(W, attacker) # "ZONE_PVP"
            THEN "RETURNVALUE_YOUMAYNOTATTACKTHISCREATURE"
         ELSE "pass"
    ELSE "pass"

\* canDoCombat(attacker, target), lines 403-417: the no-PvP world.
canDoCombatByWorld(W, attacker, target) ==
    IF W.worldType = "WORLD_TYPE_NO_PVP"
            /\ (W.cr[attacker].player \/ ownedByPlayer(W, attacker))
    THEN IF W.cr[target].player /\ ~isInPvpZone(W, attacker, target)
            THEN "RETURNVALUE_YOUMAYNOTATTACKTHISPLAYER"
         ELSE IF ownedByPlayer(W, target) /\ ~isInPvpZone(W, attacker, target)
            THEN "RETURNVALUE_YOUMAYNOTATTACKTHISCREATURE"
         ELSE "pass"
    ELSE "pass"

\* Combat::canDoCombat(Creature* attacker, Creature* target).  hook is what
\* eventCreatureOnTargetCombat answers when asked.
canDoCombat(W, attacker, target, hook) ==
    IF attacker = NoCreature THEN hook
    ELSE IF canDoCombatByKind(W, attacker, target) # "pass"
        THEN canDoCombatByKind(W, attacker, target)
    ELSE IF canDoCombatByWorld(W, attacker, target) # "pass"
        THEN canDoCombatByWorld(W, attacker, target)
    ELSE hook

(***************************************************************************)
(* AreaCombat: the direction table.  areas is the vector of grids, here a  *)
(* function from the directions whose slot exists to grids: resize(4)      *)
(* makes the four cardinal slots, resize(8) all eight.                     *)
(***************************************************************************)
Cardinals == {"DIRECTION_NORTH", "DIRECTION_EAST", "DIRECTION_SOUTH", "DIRECTION_WEST"}
Diagonals == {"DIRECTION_SOUTHWEST", "DIRECTION_SOUTHEAST",
              "DIRECTION_NORTHWEST", "DIRECTION_NORTHEAST"}

\* An AreaCombat on which no setup function was called.
NewAreaCombat == [areas |-> <<>>, hasExtArea |-> FALSE, null |-> FALSE]

\* No area at all (a null AreaCombat pointer).
NoArea == [areas |-> <<>>, hasExtArea |-> FALSE, null |-> TRUE]

\* The loop of createArea (lines 34-49) from element i, at column x of row y,
\* to the end of the row: the area it leaves, the next element and whether
\* the row was completed (cols == x after ++x).
RECURSIVE createAreaRow(_, _, _, _, _)
createAreaRow(vec, area, i, x, y) ==
    IF i > Len(vec) THEN [area |-> area, i |-> i, wrapped |-> FALSE]
    ELSE LET value == vec[i]
             a1 == IF value = 1 \/ value = 3
                   THEN [area EXCEPT !.arr[y * area.cols + x] = TRUE]
                   ELSE area
             a2 == IF value = 2 \/ value = 3
                   THEN [a1 EXCEPT !.center = <<x, y>>]
                   ELSE a1
         IN  IF area.cols = x + 1
             THEN [area |-> a2, i |-> i + 1, wrapped |-> TRUE]
             ELSE createAreaRow(vec, a2, i + 1, x + 1, y)

\* The loop of createArea from element i, at the start of row y.
RECURSIVE createAreaLoop(_, _, _, _)
createAreaLoop(vec, area, i, y) ==
    IF i > Len(vec) THEN area
    ELSE LET r == createAreaRow(vec, area, i, 0, y)
         IN  IF r.wrapped THEN createAreaLoop(vec, r.area, r.i, y + 1)
             ELSE r.area

\* createArea(vec, rows); vec is a sequence (indexed from 1).
createArea(vec, rows) ==
    LET cols == IF rows = 0 THEN 0 ELSE Len(vec) \div rows
    IN  createAreaLoop(vec, MatrixArea(<<0, 0>>, rows, cols, NewArr(rows * cols)), 1, 0)

\* AreaCombat::setupArea(const std::vector<uint32_t>& vec, uint32_t rows)
setupAreaVec(ac, vec, rows) ==
    LET area == createArea(vec, rows)
        slots == IF DOMAIN ac.areas = {} THEN Cardinals ELSE DOMAIN ac.areas
    IN  [ac EXCEPT !.areas =
            [d \in slots |->
                CASE d = "DIRECTION_EAST"  -> rotate90(area)
                  [] d = "DIRECTION_SOUTH" -> rotate180(area)
                  [] d = "DIRECTION_WEST"  -> rotate270(area)
                  [] d = "DIRECTION_NORTH" -> area
                  [] OTHER                 -> ac.areas[d]]]

\* getAreaDirection with east and west exchanged.
getAreaDirection_EastWestSwapped(ac, centerPos, targetPos) ==
    LET dx == targetPos[1] - centerPos[1]
        dy == targetPos[2] - centerPos[2]
        dir == IF dx < 0 THEN "DIRECTION_EAST"
               ELSE IF dx > 0 THEN "DIRECTION_WEST"
               ELSE IF dy < 0 THEN "DIRECTION_NORTH"
               ELSE "DIRECTION_SOUTH"
    IN  IF ~ac.hasExtArea THEN dir
        ELSE IF dx < 0 /\ dy < 0 THEN "DIRECTION_NORTHWEST"
        ELSE IF dx > 0 /\ dy < 0 THEN "DIRECTION_NORTHEAST"
        ELSE IF dx < 0 /\ dy > 0 THEN "DIRECTION_SOUTHWEST"
        ELSE IF dx > 0 /\ dy > 0 THEN "DIRECTION_SOUTHEAST"
        ELSE dir

\* The direction AreaCombat::getArea selects (lines 1368-1392).
getAreaDirection(ac, centerPos, targetPos) ==
    LET dx == targetPos[1] - centerPos[1]
        dy == targetPos[2] - centerPos[2]
        dir == IF dx < 0 THEN "DIRECTION_WEST"
               ELSE IF dx > 0 THEN "DIRECTION_EAST"
               ELSE IF dy < 0 THEN "DIRECTION_NORTH"
               ELSE "DIRECTION_SOUTH"
    IN  IF ~ac.hasExtArea THEN dir
        ELSE IF dx < 0 /\ dy < 0 THEN "DIRECTION_NORTHWEST"
        ELSE IF dx > 0 /\ dy < 0 THEN "DIRECTION_NORTHEAST"
        ELSE IF dx < 0 /\ dy > 0 THEN "DIRECTION_SOUTHWEST"
        ELSE IF dx > 0 /\ dy > 0 THEN "DIRECTION_SOUTHEAST"
        ELSE dir

\* dir >= areas.size(): the slot of the direction does not exist.
areaUnbuilt(ac, centerPos, targetPos) ==
    getAreaDirection(ac, centerPos, targetPos) \notin DOMAIN ac.areas

\* AreaCombat::getArea
getArea(ac, centerPos, targetPos) ==
    IF areaUnbuilt(ac, centerPos, targetPos)
    THEN EmptyMatrix
    ELSE ac.areas[getAreaDirection(ac, centerPos, targetPos)]

\* The rows of setupArea(length, spread) from row y on (lines 1428-1445); a
\* row is the sequence of the values pushed for x = 1..cols.
RECURSIVE lengthRows(_, _, _, _, _, _)
lengthRows(vec, y, rows, cols, colSpread, spread) ==
    IF y > rows THEN vec
    ELSE LET mincol == cols - colSpread + 1
             maxcol == cols - (cols - colSpread)
             row == [x \in 1..cols |->
                        IF y = rows /\ x = ((cols - (cols % 2)) \div 2) + 1 THEN 3
                        ELSE IF x >= mincol /\ x <= maxcol THEN 1
                        ELSE 0]
         IN  lengthRows(vec \o row, y + 1, rows, cols,
                        IF spread > 0 /\ y % spread = 0 THEN colSpread - 1 ELSE colSpread,
                        spread)

\* The vector setupArea(length, spread) builds, for length, spread >= 0.
lengthVec(length, spread) ==
    LET cols == IF spread # 0
                THEN ((length - (length % spread)) \div spread) * 2 + 1
                ELSE 1
    IN  lengthRows(<<>>, 1, length, cols, cols, spread)

\* lengthVec that never narrows the window.
setupAreaLength_NoNarrowing(ac, length, spread) ==
    setupAreaVec(ac, lengthRows(<<>>, 1, length,
                                IF spread # 0
                                THEN ((length - (length % spread)) \div spread) * 2 + 1
                                ELSE 1,
                                IF spread # 0
                                THEN ((length - (length % spread)) \div spread) * 2 + 1
                                ELSE 1, 0),
                 length)

\* AreaCombat::setupArea(int32_t length, int32_t spread)
setupAreaLength(ac, length, spread) ==
    setupAreaVec(ac, lengthVec(length, spread), length)

\* int32_t area[13][13] of setupArea(radius), row by row.
RadiusTemplate ==
    << <<0, 0, 0, 0, 0, 0, 8, 0, 0, 0, 0, 0, 0>>,
       <<0, 0, 0, 0, 8, 8, 7, 8, 8, 0, 0, 0, 0>>,
       <<0, 0, 0, 8, 7, 6, 6, 6, 7, 8, 0, 0, 0>>,
       <<0, 0, 8, 7, 6, 5, 5, 5, 6, 7, 8, 0, 0>>,
       <<0, 8, 7, 6, 5, 4, 4, 4, 5, 6, 7, 8, 0>>,
       <<0, 8, 6, 5, 4, 3, 2, 3, 4, 5, 6, 8, 0>>,
       <<8, 7, 6, 5, 4, 2, 1, 2, 4, 5, 6, 7, 8>>,
       <<0, 8, 6, 5, 4, 3, 2, 3, 4, 5, 6, 8, 0>>,
       <<0, 8, 7, 6, 5, 4, 4, 4, 5, 6, 7, 8, 0>>,
       <<0, 0, 8, 7, 6, 5, 5, 5, 6, 7, 8, 0, 0>>,
       <<0, 0, 0, 8, 7, 6, 6, 6, 7, 8, 0, 0, 0>>,
       <<0, 0, 0, 0, 8, 8, 7, 8, 8, 0, 0, 0, 0>>,
       <<0, 0, 0, 0, 0, 0, 8, 0, 0, 0, 0, 0, 0>> >>

RadiusSide == 13

\* The vector setupArea(radius) builds (lines 1468-1480).
radiusVec(radius) ==
    [k \in 1..(RadiusSide * RadiusSide) |->
        LET cell == RadiusTemplate[((k - 1) \div RadiusSide) + 1][((k - 1) % RadiusSide) + 1]
        IN  IF cell = 1 THEN 3
            ELSE IF cell > 0 /\ cell <= radius THEN 1
            ELSE 0]

\* AreaCombat::setupArea(int32_t radius)
setupAreaRadius(ac, radius) == setupAreaVec(ac, radiusVec(radius), RadiusSide)

\* AreaCombat::setupExtArea.  resize(8) keeps the grids the slots have and
\* fills the new slots with empty grids; junk is what mirror reads outside the
\* array when the template has more columns than rows.
setupExtArea(ac, vec, rows, junk) ==
    IF Len(vec) = 0 THEN ac
    ELSE LET area == createArea(vec, rows)
         IN  [ac EXCEPT
                !.hasExtArea = TRUE,
                !.areas = [d \in Cardinals \cup Diagonals |->
                    CASE d = "DIRECTION_NORTHEAST" -> mirror(area, junk)
                      [] d = "DIRECTION_SOUTHWEST" -> flip(area)
                      [] d = "DIRECTION_SOUTHEAST" -> transpose(area)
                      [] d = "DIRECTION_NORTHWEST" -> area
                      [] OTHER -> IF d \in DOMAIN ac.areas THEN ac.areas[d]
                                  ELSE EmptyMatrix]]

(***************************************************************************)
(* The state a resolution works on and the trace it leaves.  st.tiles is   *)
(* the map (position -> tile, for the tiles that exist), st.cond the       *)
(* conditions attached to each creature, st.log the calls made to the      *)
(* collaborators (game, creatures, callbacks), in order, and st.halted is  *)
(* set when the process was ended by a null dereference.                   *)
(***************************************************************************)
Emit(st, e) == [st EXCEPT !.log = Append(st.log, e)]

\* new StaticTile(x, y, z): no flags, no items, no creatures.
StaticTile(pos) ==
    [pos |-> pos, blockProjectile |-> FALSE, teleport |-> FALSE, flags |-> {},
     creatures |-> <<>>]

\* g_game.map.getTile(pos), and new StaticTile + setTile when there is none.
getOrCreateTile(st, pos) ==
    IF pos \in DOMAIN st.tiles THEN st
    ELSE [st EXCEPT !.tiles = (pos :> StaticTile(pos)) @@ st.tiles]

MAP_MAX_LAYERS == 16

\* getList: the cells of the grid in row-major order; idx counts them.  An
\* active cell with a clear line of sight gets its tile (made when missing)
\* appended.  blocked is the set of positions isSightClear refuses.
RECURSIVE getListLoop(_, _, _, _, _)
getListLoop(area, targetPos, blocked, idx, acc) ==
    IF idx >= area.rows * area.cols THEN acc
    ELSE LET row == idx \div area.cols
             col == idx % area.cols
             tmpPos == <<targetPos[1] - area.center[1] + col,
                         targetPos[2] - area.center[2] + row, targetPos[3]>>
         IN  IF Cell(area, row, col) /\ tmpPos \notin blocked
             THEN getListLoop(area, targetPos, blocked, idx + 1,
                    [st |-> getOrCreateTile(acc.st, tmpPos),
                     vec |-> Append(acc.vec, tmpPos)])
             ELSE getListLoop(area, targetPos, blocked, idx + 1, acc)

\* getList that takes every active cell, whatever isSightClear answers.
getList_SightIgnored(st, area, targetPos, blocked) ==
    getListLoop(area, targetPos, {}, 0, [st |-> st, vec |-> <<>>])

getList(st, area, targetPos, blocked) ==
    getListLoop(area, targetPos, blocked, 0, [st |-> st, vec |-> <<>>])

\* getCombatArea: the tiles (by position) and the map after it.
getCombatArea(st, centerPos, targetPos, area, blocked) ==
    IF targetPos[3] >= MAP_MAX_LAYERS THEN [st |-> st, vec |-> <<>>]
    ELSE IF ~area.null
        THEN getList(st, getArea(area, centerPos, targetPos), targetPos, blocked)
    ELSE [st |-> getOrCreateTile(st, targetPos), vec |-> <<targetPos>>]

(***************************************************************************)
(* Arithmetic of the pipeline.                                             *)
(***************************************************************************)
Abs(n) == IF n < 0 THEN -n ELSE n

\* C++ integer division: the quotient is truncated toward zero.
TruncDiv(n, d) == IF n < 0 THEN -((-n) \div d) ELSE n \div d

\* std::round(n / d) for d > 0: to the nearest integer, halves away from zero.
\* (The quotient is taken exactly; the stats of the model are chosen so that
\* the double the code computes is not within rounding error of a half.)
Round(n, d) == IF n < 0 THEN -((2 * (-n) + d) \div (2 * d)) ELSE (2 * n + d) \div (2 * d)

\* normal_random(a, b): some integer between the two bounds.
normal_random(a, b) == IF a <= b THEN a..b ELSE b..a

\* A fresh CombatDamage.
CombatDamage ==
    [ptype |-> "COMBAT_NONE", pvalue |-> 0, stype |-> "COMBAT_NONE", svalue |-> 0,
     critical |-> FALSE, leeched |-> FALSE, blockType |-> "BLOCK_NONE",
     origin |-> "ORIGIN_NONE"]

\* The script host of a callback: scriptInterface.reserved counts the script
\* environments in use, of EnvLimit.  reserveScriptEnv fails when all are in
\* use; resetScriptEnv gives one back.
EnvLimit == 2

reserveScriptEnv(scriptInterface) == scriptInterface.reserved < EnvLimit

reserved(scriptInterface) == [scriptInterface EXCEPT !.reserved = @ + 1]

resetScriptEnv(scriptInterface) == [scriptInterface EXCEPT !.reserved = @ - 1]

\* What a callback leaves of its script host: the environments in use, the
\* faults reported, and whether the hook was called.
ScriptOutcome(scriptInterface, reports, called) ==
    [reserved |-> scriptInterface.reserved, reports |-> reports, called |-> called]

\* scriptInterface->callFunction(nparams): calls the hook, reports its error
\* and resets the script environment.
callFunction(scriptInterface, scriptFails) ==
    ScriptOutcome(resetScriptEnv(scriptInterface),
                  IF scriptFails THEN <<"script error">> ELSE <<>>, TRUE)

\* ValueCallback::getMinMaxValues: the damages it can leave.  cb is the
\* callback: its type, its script host, whether setCallbackId succeeds,
\* whether the script fails, and the two numbers the script returns.  When the
\* script environment cannot be reserved, the callback id cannot be set, the
\* type is unknown or the script fails, the primary value is not set.
getMinMaxValues(W, player, damage, cb) ==
    LET d1 == IF cb.type = "COMBAT_FORMULA_SKILL" /\ W.cr[player].weapon.has
              THEN [damage EXCEPT !.stype = W.cr[player].weapon.elementType,
                                  !.svalue = W.cr[player].weapon.elementDamage]
              ELSE damage
    IN  IF ~reserveScriptEnv(cb.scriptInterface) THEN {damage}
        ELSE IF ~cb.callbackIdSet THEN {damage}
        ELSE IF cb.type \notin {"COMBAT_FORMULA_LEVELMAGIC", "COMBAT_FORMULA_SKILL"} THEN {damage}
        ELSE IF cb.scriptFails THEN {d1}
        ELSE { [d1 EXCEPT !.pvalue = v] : v \in normal_random(cb.min, cb.max) }

\* ValueCallback::getMinMaxValues: what it leaves of its script host.
getMinMaxValuesScript(cb) ==
    IF ~reserveScriptEnv(cb.scriptInterface)
    THEN ScriptOutcome(cb.scriptInterface, <<"Call stack overflow">>, FALSE)
    ELSE LET si == reserved(cb.scriptInterface)
         IN  IF ~cb.callbackIdSet THEN ScriptOutcome(resetScriptEnv(si), <<>>, FALSE)
             ELSE IF cb.type \notin {"COMBAT_FORMULA_LEVELMAGIC", "COMBAT_FORMULA_SKILL"}
                 THEN ScriptOutcome(resetScriptEnv(si), <<"unknown callback type">>, FALSE)
             ELSE ScriptOutcome(resetScriptEnv(si),
                                IF cb.scriptFails THEN <<"script error">> ELSE <<>>, TRUE)

\* TileCallback::onTileCombat
onTileCombat(cb) ==
    IF ~reserveScriptEnv(cb.scriptInterface)
    THEN ScriptOutcome(cb.scriptInterface, <<"Call stack overflow">>, FALSE)
    ELSE LET si == reserved(cb.scriptInterface)
         IN  IF ~cb.callbackIdSet THEN ScriptOutcome(resetScriptEnv(si), <<>>, FALSE)
             ELSE callFunction(si, cb.scriptFails)

\* onTargetCombat that keeps the environment when the callback id is not set.
onTargetCombat_KeepsEnvWithoutId(cb) ==
    IF ~reserveScriptEnv(cb.scriptInterface)
    THEN ScriptOutcome(cb.scriptInterface, <<"Call stack overflow">>, FALSE)
    ELSE LET si == reserved(cb.scriptInterface)
         IN  IF ~cb.callbackIdSet THEN ScriptOutcome(si, <<>>, FALSE)
             ELSE ScriptOutcome(resetScriptEnv(si),
                                IF cb.scriptFails THEN <<"script error">> ELSE <<>>, TRUE)

\* TargetCallback::onTargetCombat
onTargetCombat(cb) ==
    IF ~reserveScriptEnv(cb.scriptInterface)
    THEN ScriptOutcome(cb.scriptInterface, <<"Call stack overflow">>, FALSE)
    ELSE LET si == reserved(cb.scriptInterface)
         IN  IF ~cb.callbackIdSet THEN ScriptOutcome(resetScriptEnv(si), <<>>, FALSE)
             ELSE ScriptOutcome(resetScriptEnv(si),
                                IF cb.scriptFails THEN <<"script error">> ELSE <<>>, TRUE)

\* The coefficients mina, minb, maxa and maxb of a definition are doubles.
\* The model holds a coefficient as a whole number of 1/CoefScale, which a
\* double holds exactly; sums and products of them with integers are exact.
CoefScale == 2

\* A double converted to int32_t (static_cast, or passing it to the int32_t
\* parameter of normal_random): the fraction is dropped, toward zero.
ToInt32(x) == TruncDiv(x, CoefScale)

\* Combat::getCombatDamage: the set of damages it can return (one per sample).
\* C is the combat definition.
getCombatDamage(C, W, creature, target) ==
    LET damage == [CombatDamage EXCEPT !.origin = C.params.origin,
                                       !.ptype = C.params.combatType]
    IN  IF C.formulaType = "COMBAT_FORMULA_DAMAGE"
        THEN { [damage EXCEPT !.pvalue = v] : v \in normal_random(ToInt32(C.mina), ToInt32(C.maxa)) }
        ELSE IF creature = NoCreature THEN {damage}
        ELSE IF W.cr[creature].combatValues.has
        THEN { [damage EXCEPT !.pvalue = v] :
                 v \in normal_random(W.cr[creature].combatValues.min,
                                     W.cr[creature].combatValues.max) }
        ELSE IF ~W.cr[creature].player THEN {damage}
        ELSE IF C.params.valueCallback.set
        THEN getMinMaxValues(W, creature, damage, C.params.valueCallback)
        ELSE IF C.formulaType = "COMBAT_FORMULA_LEVELMAGIC"
        THEN LET levelFormula == W.cr[creature].level * 2 + W.cr[creature].magLevel * 3
             IN  { [damage EXCEPT !.pvalue = v] :
                     v \in normal_random(ToInt32(levelFormula * C.mina + C.minb),
                                         ToInt32(levelFormula * C.maxa + C.maxb)) }
        ELSE IF C.formulaType = "COMBAT_FORMULA_SKILL"
        THEN IF W.cr[creature].weapon.has
             THEN { [damage EXCEPT !.pvalue = v,
                                   !.stype = W.cr[creature].weapon.elementType,
                                   !.svalue = W.cr[creature].weapon.elementDamage] :
                      v \in normal_random(ToInt32(C.minb),
                                          ToInt32(W.cr[creature].weapon.damage * C.maxa
                                                  + C.maxb)) }
             ELSE { [damage EXCEPT !.pvalue = v] :
                      v \in normal_random(ToInt32(C.minb), ToInt32(C.maxb)) }
        ELSE {damage}

(***************************************************************************)
(* Side effects shared by the resolutions.  ext holds what the             *)
(* collaborators answer during one resolution: the policy hook's refusals  *)
(* (ext.tileRefused, ext.targetRefused), the positions without line of     *)
(* sight (ext.blocked), what combatBlockHit does to a hit on each creature *)
(* (ext.block), the creatures on which combatChangeHealth/Mana fails       *)
(* (ext.changeFails), the random rolls, and whether internalAddItem fails. *)
(***************************************************************************)
\* The first switch of combatTileEffects (lines 573-604).
fieldPvpItemId(itemId) ==
    CASE itemId = "ITEM_FIREFIELD_PERSISTENT_FULL"   -> "ITEM_FIREFIELD_PVP_FULL"
      [] itemId = "ITEM_FIREFIELD_PERSISTENT_MEDIUM" -> "ITEM_FIREFIELD_PVP_MEDIUM"
      [] itemId = "ITEM_FIREFIELD_PERSISTENT_SMALL"  -> "ITEM_FIREFIELD_PVP_SMALL"
      [] itemId = "ITEM_ENERGYFIELD_PERSISTENT"      -> "ITEM_ENERGYFIELD_PVP"
      [] itemId = "ITEM_POISONFIELD_PERSISTENT"      -> "ITEM_POISONFIELD_PVP"
      [] itemId = "ITEM_MAGICWALL_PERSISTENT"        -> "ITEM_MAGICWALL"
      [] itemId = "ITEM_WILDGROWTH_PERSISTENT"       -> "ITEM_WILDGROWTH"
      [] OTHER -> itemId

\* The player behind the caster (lines 606-612): its master's player for a
\* summon, the caster itself for a player, none otherwise.
fieldCasterPlayer(W, caster) ==
    IF caster = NoCreature THEN NoCreature
    ELSE IF isSummon(W, caster)
         THEN (IF W.cr[W.cr[caster].master].player THEN W.cr[caster].master ELSE NoCreature)
    ELSE IF W.cr[caster].player THEN caster ELSE NoCreature

fieldNoPvp(W, st, pos) ==
    W.worldType = "WORLD_TYPE_NO_PVP" \/ "NOPVPZONE" \in st.tiles[pos].flags

\* The item combatTileEffects creates for params.itemId (lines 572-631).
fieldItemId(W, st, caster, pos, itemId) ==
    LET id1 == fieldPvpItemId(itemId)
    IN  IF fieldCasterPlayer(W, caster) # NoCreature /\ fieldNoPvp(W, st, pos)
        THEN CASE id1 = "ITEM_FIREFIELD_PVP_FULL" -> "ITEM_FIREFIELD_NOPVP"
               [] id1 = "ITEM_POISONFIELD_PVP"    -> "ITEM_POISONFIELD_NOPVP"
               [] id1 = "ITEM_ENERGYFIELD_PVP"    -> "ITEM_ENERGYFIELD_NOPVP"
               [] id1 = "ITEM_MAGICWALL"          -> "ITEM_MAGICWALL_NOPVP"
               [] id1 = "ITEM_WILDGROWTH"         -> "ITEM_WILDGROWTH_NOPVP"
               [] OTHER -> id1
        ELSE id1

NoItem == "0"

\* Combat::combatTileEffects
combatTileEffects(st, W, caster, pos, params, ext) ==
    LET s0 == IF /\ params.itemId # NoItem
                 /\ fieldCasterPlayer(W, caster) # NoCreature
                 /\ ~fieldNoPvp(W, st, pos)
                 /\ fieldPvpItemId(params.itemId) \in
                        {"ITEM_FIREFIELD_PVP_FULL", "ITEM_POISONFIELD_PVP", "ITEM_ENERGYFIELD_PVP"}
              THEN Emit(st, [ev |-> "addInFightTicks",
                             player |-> fieldCasterPlayer(W, caster)])
              ELSE st
        s1 == IF params.itemId # NoItem /\ ~ext.addItemFails
              THEN Emit(s0, [ev |-> "addItem", pos |-> pos,
                             item |-> fieldItemId(W, st, caster, pos, params.itemId),
                             owner |-> caster])
              ELSE s0
        s2 == IF params.tileCallback
              THEN Emit(s1, [ev |-> "tileCallback", caster |-> caster, pos |-> pos])
              ELSE s1
    IN  IF params.impactEffect # "CONST_ME_NONE"
        THEN Emit(s2, [ev |-> "magicEffect", pos |-> pos, effect |-> params.impactEffect])
        ELSE s2

\* Combat::addDistanceEffect
addDistanceEffect(st, W, caster, fromPos, toPos, effect) ==
    LET eff == IF effect # "CONST_ANI_WEAPONTYPE" THEN effect
               ELSE IF caster = NoCreature THEN "CONST_ANI_NONE"
               ELSE IF ~W.cr[caster].player THEN "CONST_ANI_NONE"
               ELSE CASE W.cr[caster].weaponType = "WEAPON_AXE"   -> "CONST_ANI_WHIRLWINDAXE"
                      [] W.cr[caster].weaponType = "WEAPON_SWORD" -> "CONST_ANI_WHIRLWINDSWORD"
                      [] W.cr[caster].weaponType = "WEAPON_CLUB"  -> "CONST_ANI_WHIRLWINDCLUB"
                      [] OTHER -> "CONST_ANI_NONE"
    IN  IF eff # "CONST_ANI_NONE"
        THEN Emit(st, [ev |-> "distanceEffect", from |-> fromPos, to |-> toPos, effect |-> eff])
        ELSE st

\* Combat::postCombatEffects
postCombatEffects(st, W, caster, pos, params) ==
    IF caster # NoCreature /\ params.distanceEffect # "CONST_ANI_NONE"
    THEN addDistanceEffect(st, W, caster, W.cr[caster].pos, pos, params.distanceEffect)
    ELSE st

\* The owner a condition copy gets: the caster's id, or the clone's own when
\* there is no caster.
conditionOwner(caster) == IF caster = NoCreature THEN "unset" ELSE caster

\* target->addCombatCondition(conditionCopy)
addCombatCondition(st, target, type, owner) ==
    Emit([st EXCEPT !.cond[target] = @ \cup {[type |-> type, owner |-> owner]}],
         [ev |-> "addCondition", target |-> target, type |-> type, owner |-> owner])

\* The loop over params.conditionList of lines 902-912, 1086-1094 and 804-814:
\* a copy of each condition the creature is not immune to (or of each one,
\* when the caster is the creature) is attached, owned by the caster if any.
RECURSIVE attachConditions(_, _, _, _, _, _)
attachConditions(st, W, caster, target, list, i) ==
    IF i > Len(list) THEN st
    ELSE IF caster = target \/ list[i] \notin W.cr[target].immune
    THEN attachConditions(addCombatCondition(st, target, list[i], conditionOwner(caster)),
                          W, caster, target, list, i + 1)
    ELSE attachConditions(st, W, caster, target, list, i + 1)

\* removeCondition(CONDITION_PARALYZE) / removeCombatCondition(dispelType)
dispel(st, target, dispelType) ==
    Emit([st EXCEPT !.cond[target] = {c \in @ : c.type # dispelType}],
         [ev |-> "removeCondition", target |-> target, type |-> dispelType])

\* params.targetCallback->onTargetCombat(caster, target), when configured.
targetCallback(st, caster, target, params) ==
    IF params.targetCallback
    THEN Emit(st, [ev |-> "targetCallback", caster |-> caster, target |-> target])
    ELSE st

\* value += round(value * (stat / divisor)), for a stat that is not 0.
scaleValue(value, stat, divisor) ==
    IF stat # 0 THEN value + Round(value * stat, divisor) ELSE value

\* The caster-stat scaling of both components (lines 846-871, 1026-1050):
\* strength for physical damage, intelligence for every other type.
scaleDamage(W, casterPlayer, damage, divisor) ==
    [damage EXCEPT
        !.pvalue = scaleValue(@, IF damage.ptype = "COMBAT_PHYSICALDAMAGE"
                                 THEN W.cr[casterPlayer].strength
                                 ELSE W.cr[casterPlayer].intelligence, divisor),
        !.svalue = scaleValue(@, IF damage.stype = "COMBAT_PHYSICALDAMAGE"
                                 THEN W.cr[casterPlayer].strength
                                 ELSE W.cr[casterPlayer].intelligence, divisor)]

\* What g_game.combatBlockHit leaves in the damage it is handed: the blocking
\* outcome and the primary value less what was absorbed.
applyBlock(damage, outcome) ==
    [damage EXCEPT !.blockType = outcome.blockType,
                   !.pvalue = IF @ < 0
                              THEN (IF @ + outcome.absorb > 0 THEN 0 ELSE @ + outcome.absorb)
                              ELSE @]

(***************************************************************************)
(* Target application: Combat::doTargetCombat.                             *)
(***************************************************************************)
isPlayer(W, c) == c # NoCreature /\ W.cr[c].player

\* The player-vs-player halving of doTargetCombat (lines 878-882).
halveTarget(W, casterPlayer, target, damage) ==
    IF /\ W.cr[target].player /\ casterPlayer # target
       /\ W.cr[target].skull # "SKULL_BLACK"
       /\ damage.ptype # "COMBAT_HEALING"
    THEN [damage EXCEPT !.pvalue = TruncDiv(@, 2), !.svalue = TruncDiv(@, 2)]
    ELSE damage

\* criticalTarget landing only on a roll below the chance.
criticalTarget_RollBelowChance(W, casterPlayer, damage, roll) ==
    IF /\ ~damage.critical /\ damage.ptype # "COMBAT_HEALING"
       /\ damage.origin # "ORIGIN_CONDITION"
       /\ W.cr[casterPlayer].critChance > 0 /\ W.cr[casterPlayer].critAmount > 0
       /\ roll < W.cr[casterPlayer].critChance
    THEN [damage EXCEPT
            !.pvalue = @ + Round(@ * W.cr[casterPlayer].critAmount, 100),
            !.svalue = @ + Round(@ * W.cr[casterPlayer].critAmount, 100),
            !.critical = TRUE]
    ELSE damage

\* The critical roll of doTargetCombat (lines 884-892).
criticalTarget(W, casterPlayer, damage, roll) ==
    IF /\ ~damage.critical /\ damage.ptype # "COMBAT_HEALING"
       /\ damage.origin # "ORIGIN_CONDITION"
       /\ W.cr[casterPlayer].critChance > 0 /\ W.cr[casterPlayer].critAmount > 0
       /\ roll <= W.cr[casterPlayer].critChance
    THEN [damage EXCEPT
            !.pvalue = @ + Round(@ * W.cr[casterPlayer].critAmount, 100),
            !.svalue = @ + Round(@ * W.cr[casterPlayer].critAmount, 100),
            !.critical = TRUE]
    ELSE damage

\* The synthetic damage of a leech: no origin, marked leeched.
leechCombat(value) == [CombatDamage EXCEPT !.origin = "ORIGIN_NONE", !.leeched = TRUE,
                                           !.pvalue = value]

\* The per-hit leech of doTargetCombat (lines 919-945).
leechTarget(st, W, caster, target, damage, ext) ==
    IF /\ ~damage.leeched /\ damage.ptype # "COMBAT_HEALING" /\ isPlayer(W, caster)
       /\ target # caster /\ damage.origin # "ORIGIN_CONDITION"
    THEN LET totalDamage == Abs(damage.pvalue + damage.svalue)
             p == W.cr[caster]
             s1 == IF /\ p.healthBelowMax
                      /\ p.lifeLeechChance > 0 /\ p.lifeLeechAmount > 0
                      /\ ext.lifeRoll <= p.lifeLeechChance
                   THEN Emit(Emit(st,
                            [ev |-> "changeHealth", site |-> "leech", caster |-> NoCreature,
                             target |-> caster,
                             damage |-> leechCombat(Round(totalDamage * p.lifeLeechAmount, 100)),
                             ok |-> TRUE]),
                            [ev |-> "sendMagicEffect", player |-> caster,
                             effect |-> "CONST_ME_MAGIC_RED"])
                   ELSE st
         IN  IF /\ p.manaBelowMax
                /\ p.manaLeechChance > 0 /\ p.manaLeechAmount > 0
                /\ ext.manaRoll <= p.manaLeechChance
             THEN Emit(Emit(s1,
                    [ev |-> "changeMana", site |-> "leech", caster |-> NoCreature,
                     target |-> caster,
                     damage |-> leechCombat(Round(totalDamage * p.manaLeechAmount, 100)),
                     ok |-> TRUE]),
                    [ev |-> "sendMagicEffect", player |-> caster,
                     effect |-> "CONST_ME_MAGIC_BLUE"])
             ELSE s1
    ELSE st

\* The part of doTargetCombat after the health or mana change (lines 900-956).
afterChangeTarget(st, W, caster, target, damage, params, success, ext) ==
    LET s1 == IF success /\ damage.blockType \in {"BLOCK_NONE", "BLOCK_ARMOR"}
              THEN attachConditions(st, W, caster, target, params.conditionList, 1)
              ELSE st
        s2 == IF success /\ damage.critical
              THEN Emit(s1, [ev |-> "magicEffect", pos |-> W.cr[target].pos,
                             effect |-> "CONST_ME_CRITICAL_DAMAGE"])
              ELSE s1
        s3 == IF success THEN leechTarget(s2, W, caster, target, damage, ext) ELSE s2
        s4 == IF success THEN dispel(s3, target, params.dispelType) ELSE s3
    IN  targetCallback(s4, caster, target, params)

\* Combat::doTargetCombat
doTargetCombat(st, W, caster, target, damage, params, ext) ==
    LET s0 == IF caster # NoCreature /\ params.distanceEffect # "CONST_ANI_NONE"
              THEN addDistanceEffect(st, W, caster, W.cr[caster].pos, W.cr[target].pos,
                                     params.distanceEffect)
              ELSE st
    IN  IF damage.ptype # "COMBAT_MANADRAIN"
        THEN LET d1 == IF isPlayer(W, caster) THEN scaleDamage(W, caster, damage, 100)
                       ELSE damage
                 s1 == Emit(s0, [ev |-> "blockHit", caster |-> caster, target |-> target,
                                 damage |-> d1, blockType |-> ext.block[target].blockType,
                                 veto |-> ext.block[target].veto])
                 d2 == applyBlock(d1, ext.block[target])
                 d3 == IF isPlayer(W, caster) THEN halveTarget(W, caster, target, d2) ELSE d2
                 d4 == IF isPlayer(W, caster) THEN criticalTarget(W, caster, d3, ext.critRoll)
                       ELSE d3
                 success == target \notin ext.changeFails
             IN  IF ext.block[target].veto THEN s1
                 ELSE afterChangeTarget(
                        Emit(s1, [ev |-> "changeHealth", site |-> "hit", caster |-> caster,
                                  target |-> target, damage |-> d4, ok |-> success]),
                        W, caster, target, d4, params, success, ext)
        ELSE LET success == target \notin ext.changeFails
             IN  afterChangeTarget(
                    Emit(s0, [ev |-> "changeMana", site |-> "hit", caster |-> caster,
                              target |-> target, damage |-> damage, ok |-> success]),
                    W, caster, target, damage, params, success, ext)

(***************************************************************************)
(* Resolution of one action.  C is the combat definition (C.params, C.area *)
(* and the formula fields).                                                *)
(***************************************************************************)
\* What eventCreatureOnTargetCombat / eventCreatureOnAreaCombat answer.
targetHook(ext, creature) ==
    IF creature \in ext.targetRefused THEN "RETURNVALUE_NOTPOSSIBLE" ELSE "RETURNVALUE_NOERROR"

tileHook(ext, pos) ==
    IF pos \in ext.tileRefused THEN "RETURNVALUE_NOTPOSSIBLE" ELSE "RETURNVALUE_NOERROR"

\* !params.aggressive || (caster != target && canDoCombat(caster, target) == NOERROR)
canCombat(W, params, caster, target, ext) ==
    IF ~params.aggressive THEN TRUE
    ELSE IF caster = target THEN FALSE
    ELSE canDoCombat(W, caster, target, targetHook(ext, target)) = "RETURNVALUE_NOERROR"

\* doCombatTargetDamage showing the impact visual whether or not the action
\* lands.
doCombatTargetDamage_ImpactAlways(st, W, caster, target, damage, params, ext) ==
    LET s1 == IF params.impactEffect # "CONST_ME_NONE"
              THEN Emit(st, [ev |-> "magicEffect", pos |-> W.cr[target].pos,
                             effect |-> params.impactEffect])
              ELSE st
    IN  IF canCombat(W, params, caster, target, ext)
        THEN doTargetCombat(s1, W, caster, target, damage, params, ext)
        ELSE s1

\* doCombat(caster, target) with a combat type (lines 699-708).
doCombatTargetDamage(st, W, caster, target, damage, params, ext) ==
    LET s1 == IF /\ (caster = target \/ canCombat(W, params, caster, target, ext))
                 /\ params.impactEffect # "CONST_ME_NONE"
              THEN Emit(st, [ev |-> "magicEffect", pos |-> W.cr[target].pos,
                             effect |-> params.impactEffect])
              ELSE st
    IN  IF canCombat(W, params, caster, target, ext)
        THEN doTargetCombat(s1, W, caster, target, damage, params, ext)
        ELSE s1

\* Line 718 reads caster->getID() with no test of caster: with no caster and a
\* condition to attach, the behaviour is undefined.
derefsNullCaster(W, caster, target, params) ==
    /\ caster = NoCreature
    /\ params.origin # "ORIGIN_MELEE"
    /\ \E i \in DOMAIN params.conditionList : params.conditionList[i] \notin W.cr[target].immune

\* The loop of lines 715-721 once the owner is read: owner is the caster's id,
\* or whatever the null dereference produced.
RECURSIVE attachConditionsAs(_, _, _, _, _, _, _)
attachConditionsAs(st, W, caster, target, list, i, owner) ==
    IF i > Len(list) THEN st
    ELSE IF caster = target \/ list[i] \notin W.cr[target].immune
    THEN attachConditionsAs(addCombatCondition(st, target, list[i], owner),
                            W, caster, target, list, i + 1, owner)
    ELSE attachConditionsAs(st, W, caster, target, list, i + 1, owner)

\* doCombat(caster, target) with no combat type (lines 710-745).  ext.nullDeref
\* is what the undefined behaviour of line 718 does: it ends the process
\* ("crash") or yields some owner ("garbage").
doCombatTargetPlain(st, W, caster, target, params, ext) ==
    IF ~canCombat(W, params, caster, target, ext) THEN st
    ELSE IF derefsNullCaster(W, caster, target, params) /\ ext.nullDeref = "crash"
    THEN [st EXCEPT !.halted = TRUE]
    ELSE LET s1 == IF params.origin # "ORIGIN_MELEE"
                   THEN attachConditionsAs(st, W, caster, target, params.conditionList, 1,
                            IF caster = NoCreature THEN "garbage" ELSE caster)
                   ELSE st
             s2 == dispel(s1, target, params.dispelType)
             s3 == combatTileEffects(s2, W, caster, W.cr[target].pos, params, ext)
             s4 == targetCallback(s3, caster, target, params)
         IN  IF caster # NoCreature /\ params.distanceEffect # "CONST_ANI_NONE"
             THEN addDistanceEffect(s4, W, caster, W.cr[caster].pos, W.cr[target].pos,
                                    params.distanceEffect)
             ELSE s4

\* Combat::doCombat(Creature* caster, Creature* target)
doCombatTarget(C, st, W, caster, target, damage, ext) ==
    IF C.params.combatType # "COMBAT_NONE"
    THEN doCombatTargetDamage(st, W, caster, target, damage, C.params, ext)
    ELSE doCombatTargetPlain(st, W, caster, target, C.params, ext)

\* The targetCasterOrTopMost filter (lines 793-801, 1003-1012): TRUE when the
\* creature is passed over.  The top creature is the first of the tile.
\* skipsCreature that keeps the topmost creature wherever the caster stands.
skipsCreature_TopMostOnly(W, params, caster, pos, creatures, creature) ==
    IF ~params.targetCasterOrTopMost THEN FALSE
    ELSE creature # creatures[1]

skipsCreature(W, params, caster, pos, creatures, creature) ==
    IF ~params.targetCasterOrTopMost THEN FALSE
    ELSE IF caster # NoCreature /\ W.cr[caster].pos = pos THEN creature # caster
    ELSE creature # creatures[1]

\* caster ? getCombatArea(caster->getPosition(), position, area)
\*        : getCombatArea(position, position, area)
combatAreaOf(st, W, caster, position, area, ext) ==
    getCombatArea(st, IF caster # NoCreature THEN W.cr[caster].pos ELSE position,
                  position, area, ext.blocked)

\* The creature loop of doCombat over a position (lines 792-830).
RECURSIVE positionCreatures(_, _, _, _, _, _, _, _)
positionCreatures(st, W, params, caster, pos, creatures, i, ext) ==
    IF i > Len(creatures) THEN st
    ELSE IF skipsCreature(W, params, caster, pos, creatures, creatures[i])
    THEN positionCreatures(st, W, params, caster, pos, creatures, i + 1, ext)
    ELSE LET creature == creatures[i]
             s1 == IF canCombat(W, params, caster, creature, ext)
                   THEN attachConditions(st, W, caster, creature, params.conditionList, 1)
                   ELSE st
             s2 == dispel(s1, creature, params.dispelType)
             s3 == targetCallback(s2, caster, creature, params)
         IN  IF params.targetCasterOrTopMost THEN s3
             ELSE positionCreatures(s3, W, params, caster, pos, creatures, i + 1, ext)

\* The tile loop of doCombat over a position (lines 783-832).
RECURSIVE positionTiles(_, _, _, _, _, _, _)
positionTiles(st, W, params, caster, tiles, i, ext) ==
    IF i > Len(tiles) THEN st
    ELSE IF canDoCombatTile(W, caster, st.tiles[tiles[i]], params.aggressive,
                            tileHook(ext, tiles[i])).ret # "RETURNVALUE_NOERROR"
    THEN positionTiles(st, W, params, caster, tiles, i + 1, ext)
    ELSE positionTiles(
            positionCreatures(combatTileEffects(st, W, caster, tiles[i], params, ext),
                              W, params, caster, tiles[i], st.tiles[tiles[i]].creatures, 1, ext),
            W, params, caster, tiles, i + 1, ext)

\* doCombat(caster, position) with no combat type (lines 756-832).
doCombatPositionPlain(C, st, W, caster, position, ext) ==
    LET tiles == combatAreaOf(st, W, caster, position, C.area, ext)
    IN  positionTiles(postCombatEffects(tiles.st, W, caster, position, C.params),
                      W, C.params, caster, tiles.vec, 1, ext)

(***************************************************************************)
(* Area damage application: Combat::doAreaCombat.                          *)
(***************************************************************************)
\* The creature loop that fills toDamageCreatures (lines 1002-1019).
RECURSIVE areaCreatures(_, _, _, _, _, _, _, _)
areaCreatures(W, params, caster, pos, creatures, i, ext, acc) ==
    IF i > Len(creatures) THEN acc
    ELSE IF skipsCreature(W, params, caster, pos, creatures, creatures[i])
    THEN areaCreatures(W, params, caster, pos, creatures, i + 1, ext, acc)
    ELSE IF canCombat(W, params, caster, creatures[i], ext)
    THEN (IF params.targetCasterOrTopMost THEN Append(acc, creatures[i])
          ELSE areaCreatures(W, params, caster, pos, creatures, i + 1, ext,
                             Append(acc, creatures[i])))
    ELSE areaCreatures(W, params, caster, pos, creatures, i + 1, ext, acc)

\* The tile loop that fills toDamageCreatures (lines 995-1021); acc.vec is
\* toDamageCreatures.
RECURSIVE areaTiles(_, _, _, _, _, _, _)
areaTiles(acc, W, params, caster, tiles, i, ext) ==
    IF i > Len(tiles) THEN acc
    ELSE IF canDoCombatTile(W, caster, acc.st.tiles[tiles[i]], params.aggressive,
                            tileHook(ext, tiles[i])).ret # "RETURNVALUE_NOERROR"
    THEN areaTiles(acc, W, params, caster, tiles, i + 1, ext)
    ELSE areaTiles(
            [st |-> combatTileEffects(acc.st, W, caster, tiles[i], params, ext),
             vec |-> areaCreatures(W, params, caster, tiles[i],
                                   acc.st.tiles[tiles[i]].creatures, 1, ext, acc.vec)],
            W, params, caster, tiles, i + 1, ext)

\* The critical roll made once per area resolution (lines 964-974).
areaCritical(W, caster, damage, roll) ==
    IF /\ ~damage.critical /\ damage.ptype # "COMBAT_HEALING" /\ isPlayer(W, caster)
       /\ damage.origin # "ORIGIN_CONDITION"
       /\ W.cr[caster].critChance > 0 /\ W.cr[caster].critAmount > 0
       /\ roll <= W.cr[caster].critChance
    THEN [damage |-> [damage EXCEPT !.critical = TRUE],
          criticalPrimary |-> Round(damage.pvalue * W.cr[caster].critAmount, 100),
          criticalSecondary |-> Round(damage.svalue * W.cr[caster].critAmount, 100)]
    ELSE [damage |-> damage, criticalPrimary |-> 0, criticalSecondary |-> 0]

\* playerCombatReduced (lines 1052-1060).
areaReduced(W, caster, creature, damageCopy) ==
    /\ (damageCopy.pvalue < 0 \/ damageCopy.svalue < 0)
    /\ isPlayer(W, caster)
    /\ W.cr[creature].player /\ caster # creature
    /\ W.cr[creature].skull # "SKULL_BLACK"

\* damageCopy as it is handed to combatBlockHit (lines 1025-1065).
areaDamageCopy(W, caster, creature, crit) ==
    LET d1 == IF isPlayer(W, caster) THEN scaleDamage(W, caster, crit.damage, 230)
              ELSE crit.damage
        reduced == areaReduced(W, caster, creature, d1)
        d2 == IF reduced
              THEN [d1 EXCEPT !.pvalue = TruncDiv(@, 2), !.svalue = TruncDiv(@, 2)]
              ELSE d1
    IN  IF d2.critical
        THEN [d2 EXCEPT
                !.pvalue = @ + (IF reduced THEN TruncDiv(crit.criticalPrimary, 2)
                                ELSE crit.criticalPrimary),
                !.svalue = @ + (IF reduced THEN TruncDiv(crit.criticalSecondary, 2)
                                ELSE crit.criticalSecondary)]
        ELSE d2

\* calcLeechValue counting every target as an extra one.
calcLeechValue_EveryTargetExtra(maxDamageFound, totalTargets, skillPercent, extraPercentForOthers) ==
    Round(maxDamageFound * skillPercent * (100 + extraPercentForOthers * totalTargets),
          10000)

\* calcLeechValue (lines 1120-1125):
\* round(base + base * extraPercentForOthers / 100 * extrasCount),
\* base = maxDamageFound * skillPercent / 100.
calcLeechValue(maxDamageFound, totalTargets, skillPercent, extraPercentForOthers) ==
    LET extrasCount == IF totalTargets > 1 THEN totalTargets - 1 ELSE 0
    IN  Round(maxDamageFound * skillPercent * (100 + extraPercentForOthers * extrasCount),
              10000)

\* The leech block of doAreaCombat (lines 1114-1153), entered with the values
\* maxDamageFound and totalTargets have at that point.  The "leech" entry of
\* the trace records the values it was computed from.
areaLeech(st, W, caster, maxDamageFound, totalTargets, ext) ==
    LET p == W.cr[caster]
        s0 == Emit(st, [ev |-> "leech", maxDamageFound |-> maxDamageFound,
                        totalTargets |-> totalTargets])
        life == calcLeechValue(maxDamageFound, totalTargets, p.lifeLeechAmount, 10)
        mana == calcLeechValue(maxDamageFound, totalTargets, p.manaLeechAmount, 5)
        s1 == IF /\ p.healthBelowMax /\ p.lifeLeechChance > 0 /\ p.lifeLeechAmount > 0
                 /\ ext.lifeRoll <= p.lifeLeechChance /\ life > 0
              THEN Emit(Emit(s0,
                     [ev |-> "changeHealth", site |-> "leech", caster |-> NoCreature,
                      target |-> caster, damage |-> leechCombat(life), ok |-> TRUE]),
                     [ev |-> "sendMagicEffect", player |-> caster,
                      effect |-> "CONST_ME_MAGIC_RED"])
              ELSE s0
    IN  IF /\ p.manaBelowMax /\ p.manaLeechChance > 0 /\ p.manaLeechAmount > 0
           /\ ext.manaRoll <= p.manaLeechChance /\ mana > 0
        THEN Emit(Emit(s1,
               [ev |-> "changeMana", site |-> "leech", caster |-> NoCreature,
                target |-> caster, damage |-> leechCombat(mana), ok |-> TRUE]),
               [ev |-> "sendMagicEffect", player |-> caster,
                effect |-> "CONST_ME_MAGIC_BLUE"])
        ELSE s1

\* The leech condition of lines 1114-1117.
areaLeechDue(W, caster, damage, maxDamageFound, totalTargets) ==
    /\ isPlayer(W, caster) /\ ~damage.leeched
    /\ damage.ptype # "COMBAT_HEALING" /\ damage.origin # "ORIGIN_CONDITION"
    /\ totalTargets > 0 /\ maxDamageFound > 0

\* The success block of one hit (lines 1085-1104).  damage is the resolution's
\* damage, not the hit's copy.
areaSuccess(st, W, caster, creature, damage, params) ==
    LET s1 == IF damage.blockType \in {"BLOCK_NONE", "BLOCK_ARMOR"}
              THEN attachConditions(st, W, caster, creature, params.conditionList, 1)
              ELSE st
    IN  targetCallback(dispel(s1, creature, params.dispelType), caster, creature, params)

\* The loop over toDamageCreatures (lines 1024-1154).  acc carries the trace,
\* the resolution's damage, maxDamageFound and totalTargets.
RECURSIVE areaHits(_, _, _, _, _, _, _, _)
areaHits(acc, W, caster, crit, params, toDamage, i, ext) ==
    IF i > Len(toDamage) THEN acc.st
    ELSE LET creature == toDamage[i]
             copy == areaDamageCopy(W, caster, creature, [crit EXCEPT !.damage = acc.damage])
             s1 == IF copy.critical
                   THEN Emit(acc.st, [ev |-> "magicEffect", pos |-> W.cr[creature].pos,
                                      effect |-> "CONST_ME_CRITICAL_DAMAGE"])
                   ELSE acc.st
             blocks == copy.ptype # "COMBAT_MANADRAIN"
             s2 == IF blocks
                   THEN Emit(s1, [ev |-> "blockHit", caster |-> caster, target |-> creature,
                                  damage |-> copy, blockType |-> ext.block[creature].blockType,
                                  veto |-> ext.block[creature].veto])
                   ELSE s1
             hit == IF blocks THEN applyBlock(copy, ext.block[creature]) ELSE copy
             success == creature \notin ext.changeFails
             s3 == Emit(s2, [ev |-> IF blocks THEN "changeHealth" ELSE "changeMana",
                             site |-> "hit", caster |-> caster, target |-> creature,
                             damage |-> hit, ok |-> success])
             dmgDealt == Abs(hit.pvalue + hit.svalue)
             maxDamageFound == IF success /\ dmgDealt > acc.maxDamageFound
                               THEN dmgDealt ELSE acc.maxDamageFound
             totalTargets == IF success THEN acc.totalTargets + 1 ELSE acc.totalTargets
             s4 == IF success THEN areaSuccess(s3, W, caster, creature, acc.damage, params)
                   ELSE s3
             due == areaLeechDue(W, caster, acc.damage, maxDamageFound, totalTargets)
         IN  IF blocks /\ ext.block[creature].veto
             THEN areaHits([acc EXCEPT !.st = s2], W, caster, crit, params, toDamage, i + 1, ext)
             ELSE areaHits(
                    [st |-> IF due THEN areaLeech(s4, W, caster, maxDamageFound, totalTargets, ext)
                            ELSE s4,
                     damage |-> IF due THEN [acc.damage EXCEPT !.leeched = TRUE]
                                ELSE acc.damage,
                     maxDamageFound |-> maxDamageFound,
                     totalTargets |-> totalTargets],
                    W, caster, crit, params, toDamage, i + 1, ext)

\* Combat::doAreaCombat
doAreaCombat(st, W, caster, position, area, damage, params, ext) ==
    LET tiles == combatAreaOf(st, W, caster, position, area, ext)
        crit == areaCritical(W, caster, damage, ext.critRoll)
        found == areaTiles([st |-> postCombatEffects(tiles.st, W, caster, position, params),
                            vec |-> <<>>],
                           W, params, caster, tiles.vec, 1, ext)
    IN  areaHits([st |-> found.st, damage |-> crit.damage,
                  maxDamageFound |-> 0, totalTargets |-> 0],
                 W, caster, crit, params, found.vec, 1, ext)

\* Combat::doCombat(Creature* caster, const Position& position)
doCombatPosition(C, st, W, caster, position, damage, ext) ==
    IF C.params.combatType # "COMBAT_NONE"
    THEN doAreaCombat(st, W, caster, position, C.area, damage, C.params, ext)
    ELSE doCombatPositionPlain(C, st, W, caster, position, ext)

(***************************************************************************)
(* Each specification below moves its own variables and holds the others   *)
(* at these values.                                                        *)
(***************************************************************************)
GridIdle ==
    /\ g = EmptyMatrix
    /\ cur = EmptyMatrix
    /\ ops = <<>>
    /\ fault = FALSE

NoResult == [ret |-> "none", hooked |-> FALSE]

TileIdle ==
    /\ tileQ = "idle"
    /\ tileR = NoResult

CombatIdle ==
    /\ cq = "idle"
    /\ run = "idle"

NoEntityCall == [op |-> "none", hook |-> "none", ret |-> "none", protected |-> FALSE]

EntityIdle ==
    /\ entQ = "idle"
    /\ entR = NoEntityCall

NoCalc == [op |-> "none", log |-> <<>>, damage |-> CombatDamage]

CalcIdle ==
    /\ calcQ = "idle"
    /\ calcR = NoCalc

NoSelection == [op |-> "none", dx |-> 0, dy |-> 0, area |-> EmptyMatrix]

AreaIdle ==
    /\ areaQ = "idle"
    /\ areaR = NoSelection

NoCallbackRun == [op |-> "none", damage |-> CombatDamage, reserved |-> 0,
                  reports |-> <<>>, called |-> FALSE]

CallbackIdle ==
    /\ cbQ = "idle"
    /\ cbR = NoCallbackRun

NoDamageCall == [op |-> "none", damage |-> CombatDamage]

DamageIdle ==
    /\ dmgQ = "idle"
    /\ dmgR = NoDamageCall

NoListCall == [op |-> "none", vec |-> <<>>, tiles |-> {}]

ListIdle ==
    /\ listQ = "idle"
    /\ listR = NoListCall

(***************************************************************************)
(* SpecTile: canDoCombat(caster, tile, aggressive) for every kind of actor *)
(* on, above or below every kind of tile.                                  *)
(***************************************************************************)
\* The actors: a monster, a player, a player holding the
\* ignore-protection-zone flag; each one layer above, on or one layer below
\* the tile's layer.  The caster of a call is the actor or absent.
TileActors ==
    { [player |-> pl, flags |-> fl, pos |-> <<0, 0, z>>] :
        pl \in BOOLEAN, fl \in {{}, {"IgnoreProtectionZone"}},
        z \in 6..8 }

TileKinds ==
    { [pos |-> <<0, 0, 7>>, blockProjectile |-> bp, teleport |-> tp, flags |-> fl] :
        bp \in BOOLEAN, tp \in BOOLEAN,
        fl \in SUBSET {"FLOORCHANGE", "PROTECTIONZONE"} }

TileInit ==
    /\ tileQ \in [W : { [cr |-> [c \in {"actor"} |-> a]] : a \in TileActors },
                  caster : {NoCreature, "actor"}, tile : TileKinds,
                  aggressive : BOOLEAN, hook : {"none"}]
    /\ tileR = NoResult
    /\ GridIdle
    /\ CombatIdle
    /\ EntityIdle
    /\ CalcIdle
    /\ AreaIdle
    /\ CallbackIdle
    /\ DamageIdle
    /\ ListIdle

CanDoCombatTile ==
    /\ tileR = NoResult
    /\ \E hook \in HookVerdicts :
        /\ tileQ' = [tileQ EXCEPT !.hook = hook]
        /\ tileR' = canDoCombatTile(tileQ.W, tileQ.caster, tileQ.tile, tileQ.aggressive, hook)
    /\ UNCHANGED <<gridVars, combatVars, entityVars, calcVars, areaVars, callbackVars, damageVars, listVars>>

TileNext == CanDoCombatTile

SpecTile == TileInit /\ [][TileNext]_vars

(***************************************************************************)
(* SpecGrid: the transforms applied, repeatedly, to every grid of up to    *)
(* MaxRows x MaxCols cells with its origin on any of its cells.            *)
(***************************************************************************)
Grids ==
    UNION { UNION { { MatrixArea(<<x, y>>, r, c, a) :
                        x \in 0..(c - 1), y \in 0..(r - 1),
                        a \in [0..(r * c - 1) -> BOOLEAN] } :
                    c \in 1..MaxCols } :
            r \in 1..MaxRows }

GridInit ==
    /\ g \in Grids
    /\ cur = g
    /\ ops = <<>>
    /\ fault = FALSE
    /\ TileIdle
    /\ CombatIdle
    /\ EntityIdle
    /\ CalcIdle
    /\ AreaIdle
    /\ CallbackIdle
    /\ DamageIdle
    /\ ListIdle

\* A transform is applied to the result of the previous one; g is left alone.
\* A run repeats one transform, up to MaxApply times.
LastOp == IF ops = <<>> THEN "none" ELSE ops[Len(ops)]

CanApply(op) == Len(ops) < MaxApply /\ LastOp \in {"none", op} /\ ~fault

ApplyFlip ==
    /\ CanApply("flip")
    /\ cur' = flip(cur)
    /\ ops' = Append(ops, "flip")
    /\ UNCHANGED <<g, fault, tileVars, combatVars, entityVars, calcVars, areaVars, callbackVars, damageVars, listVars>>

\* With cols > rows the slices of mirror leave the arrays: the cells read there
\* are arbitrary, and the write past the end of newArr may also end the process.
ApplyMirror ==
    /\ CanApply("mirror")
    /\ \/ /\ ~mirrorOutOfBounds(cur)
          /\ cur' = mirror(cur, NoJunk)
          /\ fault' = FALSE
       \/ /\ mirrorOutOfBounds(cur)
          /\ \E junk \in [(cur.rows * cur.cols)..mirrorMaxIndex(cur) -> BOOLEAN] :
                cur' = mirror(cur, junk)
          /\ fault' = TRUE
    /\ ops' = Append(ops, "mirror")
    /\ UNCHANGED <<g, tileVars, combatVars, entityVars, calcVars, areaVars, callbackVars, damageVars, listVars>>

ApplyTranspose ==
    /\ CanApply("transpose")
    /\ cur' = transpose(cur)
    /\ ops' = Append(ops, "transpose")
    /\ UNCHANGED <<g, fault, tileVars, combatVars, entityVars, calcVars, areaVars, callbackVars, damageVars, listVars>>

ApplyRotate90 ==
    /\ CanApply("rotate90")
    /\ cur' = rotate90(cur)
    /\ ops' = Append(ops, "rotate90")
    /\ UNCHANGED <<g, fault, tileVars, combatVars, entityVars, calcVars, areaVars, callbackVars, damageVars, listVars>>

ApplyRotate180 ==
    /\ CanApply("rotate180")
    /\ cur' = rotate180(cur)
    /\ ops' = Append(ops, "rotate180")
    /\ UNCHANGED <<g, fault, tileVars, combatVars, entityVars, calcVars, areaVars, callbackVars, damageVars, listVars>>

ApplyRotate270 ==
    /\ CanApply("rotate270")
    /\ cur' = rotate270(cur)
    /\ ops' = Append(ops, "rotate270")
    /\ UNCHANGED <<g, fault, tileVars, combatVars, entityVars, calcVars, areaVars, callbackVars, damageVars, listVars>>

GridNext ==
    \/ ApplyFlip
    \/ ApplyMirror
    \/ ApplyTranspose
    \/ ApplyRotate90
    \/ ApplyRotate180
    \/ ApplyRotate270

SpecGrid == GridInit /\ [][GridNext]_vars

(***************************************************************************)
(* SpecCombat: one resolution, single-target or over a position, of every  *)
(* definition of the scenario below by every caster.                       *)
(*                                                                         *)
(* The scenario: the player p1 stands on Home; the player p2 and the       *)
(* monster m1 stand together on North ("stack") or on North and East       *)
(* ("spread"), on tiles without flags.  Each creature starts paralyzed.  The stats of p1 are       *)
(* chosen so that every product the pipeline rounds is an integer or an    *)
(* exact half.                                                             *)
(***************************************************************************)
Creatures == {"p1", "p2", "m1"}

Home == <<1, 1, 7>>
North == <<1, 0, 7>>
East == <<2, 0, 7>>

Layouts == {"stack", "spread"}

positionOf(layout, c) ==
    IF c = "p1" THEN Home
    ELSE IF c = "p2" THEN North
    ELSE IF layout = "stack" THEN North ELSE East

ScenarioCreature(layout, c) ==
    [player |-> c # "m1", monster |-> c = "m1", flags |-> {},
     pos |-> positionOf(layout, c), tileFlags |-> {},
     master |-> NoCreature, level |-> 50, allowsPvp |-> TRUE,
     skull |-> "SKULL_NONE", skullTo |-> [d \in Creatures |-> "SKULL_NONE"],
     immune |-> IF c = "m1" THEN {"CONDITION_POISON"} ELSE {},
     weaponType |-> "WEAPON_SWORD", strength |-> 23, intelligence |-> 46,
     critChance |-> 50, critAmount |-> 50,
     healthBelowMax |-> TRUE, manaBelowMax |-> TRUE,
     lifeLeechChance |-> 50, lifeLeechAmount |-> 20,
     manaLeechChance |-> 50, manaLeechAmount |-> 20,
     combatValues |-> [has |-> FALSE, min |-> 0, max |-> 0],
     weapon |-> [has |-> FALSE, damage |-> 0, elementType |-> "COMBAT_NONE",
                 elementDamage |-> 0],
     magLevel |-> 10]

ScenarioWorld(layout) ==
    [cr |-> [c \in Creatures |-> ScenarioCreature(layout, c)],
     worldType |-> "WORLD_TYPE_PVP", protectionLevel |-> 10]

ScenarioTile(layout, pos) ==
    [pos |-> pos, blockProjectile |-> FALSE, teleport |-> FALSE,
     flags |-> {},
     creatures |-> IF pos = Home THEN <<"p1">>
                   ELSE IF pos = North
                        THEN (IF layout = "stack" THEN <<"p2", "m1">> ELSE <<"p2">>)
                   ELSE IF layout = "stack" THEN <<>> ELSE <<"m1">>]

ScenarioRun(layout) ==
    [tiles |-> [pos \in {Home, North, East} |-> ScenarioTile(layout, pos)],
     cond |-> [c \in Creatures |-> {[type |-> "CONDITION_PARALYZE", owner |-> "world"]}],
     log |-> <<>>, halted |-> FALSE]

\* The areas a definition can carry: none, one on which no setup function was
\* called, and a row of two cells with its origin on the first.
ScenarioAreas == {NoArea, NewAreaCombat, setupAreaVec(NewAreaCombat, <<3, 1>>, 1)}

\* A definition: the damage formula draws one value, a loss for the damaging
\* types and a gain for healing.  A dressed definition has the visuals, the
\* field and the callbacks; a bare one has none of them.
ScenarioCombat(type, aggressive, dressed, topMost, origin, area) ==
    [params |-> [combatType |-> type, aggressive |-> aggressive, origin |-> origin,
                 impactEffect |-> IF dressed THEN "CONST_ME_HITAREA" ELSE "CONST_ME_NONE",
                 distanceEffect |-> IF dressed THEN "CONST_ANI_WEAPONTYPE"
                                    ELSE "CONST_ANI_NONE",
                 itemId |-> IF dressed THEN "ITEM_FIREFIELD_PERSISTENT_FULL" ELSE NoItem,
                 tileCallback |-> dressed, targetCallback |-> dressed,
                 targetCasterOrTopMost |-> topMost,
                 conditionList |-> <<"CONDITION_POISON", "CONDITION_FIRE">>,
                 dispelType |-> "CONDITION_PARALYZE",
                 valueCallback |-> [set |-> FALSE]],
     area |-> area,
     formulaType |-> "COMBAT_FORMULA_DAMAGE",
     mina |-> (IF type = "COMBAT_HEALING" THEN 100 ELSE -100) * CoefScale, minb |-> 0,
     maxa |-> (IF type = "COMBAT_HEALING" THEN 100 ELSE -100) * CoefScale, maxb |-> 0]

ScenarioCombats ==
    { ScenarioCombat(type, aggressive, dressed, topMost, origin, area) :
        type \in {"COMBAT_NONE", "COMBAT_PHYSICALDAMAGE", "COMBAT_HEALING",
                  "COMBAT_MANADRAIN"},
        aggressive \in BOOLEAN, dressed \in BOOLEAN, topMost \in BOOLEAN,
        origin \in {"ORIGIN_SPELL", "ORIGIN_MELEE", "ORIGIN_CONDITION"},
        area \in ScenarioAreas }

\* What combatBlockHit can do to a hit: nothing, absorb part of it by armor or
\* by shield, or veto it.
NoBlock == [veto |-> FALSE, blockType |-> "BLOCK_NONE", absorb |-> 0]

BlockOutcomes ==
    {NoBlock,
     [veto |-> FALSE, blockType |-> "BLOCK_ARMOR", absorb |-> 20],
     [veto |-> FALSE, blockType |-> "BLOCK_DEFENSE", absorb |-> 20],
     [veto |-> TRUE, blockType |-> "BLOCK_IMMUNITY", absorb |-> 0]}

\* The rolls normal_random(1, 100) and uniform_random(1, 100) can give: one
\* within every chance of the scenario, one above.
Rolls == {1, 100}

\* The answers of the collaborators when none of them interferes.
NoExt ==
    [tileRefused |-> {}, targetRefused |-> {}, blocked |-> {},
     block |-> [c \in Creatures |-> NoBlock], changeFails |-> {},
     critRoll |-> 1, lifeRoll |-> 1, manaRoll |-> 1,
     addItemFails |-> FALSE, nullDeref |-> "crash"]

NoCall == [op |-> "none", target |-> NoCreature, position |-> <<0, 0, 0>>,
           damage |-> CombatDamage, ext |-> NoExt]

CombatInit ==
    /\ \E layout \in Layouts, C \in ScenarioCombats,
          caster \in {NoCreature, "p1", "m1"} :
        /\ cq = [C |-> C, W |-> ScenarioWorld(layout), caster |-> caster,
                 call |-> NoCall]
        /\ run = ScenarioRun(layout)
    /\ GridIdle
    /\ TileIdle
    /\ EntityIdle
    /\ CalcIdle
    /\ AreaIdle
    /\ CallbackIdle
    /\ DamageIdle
    /\ ListIdle

\* The answers that matter to a resolution: a roll is drawn only where the
\* code rolls, a block outcome only where combatBlockHit is called.
rollsFor(C, caster) ==
    IF caster = "p1" /\ C.params.combatType \notin {"COMBAT_NONE", "COMBAT_HEALING"}
          /\ C.params.origin # "ORIGIN_CONDITION"
    THEN Rolls ELSE {1}

blocksFor(C, c, outcomes) ==
    IF C.params.combatType \in {"COMBAT_NONE", "COMBAT_MANADRAIN"} THEN {NoBlock}
    ELSE outcomes

TargetExts(C, caster, target) ==
    { [NoExt EXCEPT !.targetRefused = tr, !.block[target] = b, !.changeFails = cf,
                    !.critRoll = r1, !.lifeRoll = r2, !.manaRoll = r3,
                    !.addItemFails = af, !.nullDeref = nd] :
        tr \in IF C.params.aggressive THEN {{}, {target}} ELSE {{}},
        b \in blocksFor(C, target, BlockOutcomes),
        cf \in IF C.params.combatType # "COMBAT_NONE" THEN {{}, {target}} ELSE {{}},
        r1 \in rollsFor(C, caster), r2 \in rollsFor(C, caster), r3 \in rollsFor(C, caster),
        af \in IF C.params.combatType = "COMBAT_NONE" /\ C.params.itemId # NoItem
               THEN BOOLEAN ELSE {FALSE},
        nd \in IF C.params.combatType = "COMBAT_NONE" /\ caster = NoCreature
               THEN {"crash", "garbage"} ELSE {"crash"} }

AreaExts(C, caster) ==
    { [NoExt EXCEPT !.tileRefused = tl, !.targetRefused = tr, !.blocked = bl,
                    !.block["p2"] = b2, !.block["m1"] = b1, !.changeFails = cf,
                    !.critRoll = r1, !.lifeRoll = r2, !.manaRoll = r3] :
        tl \in {{}, {North}},
        tr \in IF C.params.aggressive THEN {{}, {"p2"}} ELSE {{}},
        bl \in IF DOMAIN C.area.areas # {} THEN {{}, {East}} ELSE {{}},
        b2 \in blocksFor(C, "p2", BlockOutcomes),
        b1 \in blocksFor(C, "m1", {NoBlock, [veto |-> TRUE, blockType |-> "BLOCK_IMMUNITY",
                                             absorb |-> 0]}),
        cf \in IF C.params.combatType # "COMBAT_NONE" THEN {{}, {"p2"}} ELSE {{}},
        r1 \in rollsFor(C, caster), r2 \in rollsFor(C, caster), r3 \in rollsFor(C, caster) }

\* Combat::doCombat(caster, target), for any target.
DoCombatTarget ==
    /\ cq.call.op = "none"
    /\ \E target \in Creatures :
       \E ext \in TargetExts(cq.C, cq.caster, target) :
       \E damage \in getCombatDamage(cq.C, cq.W, cq.caster, target) :
        /\ cq' = [cq EXCEPT !.call = [op |-> "doCombatTarget", target |-> target,
                                      position |-> cq.W.cr[target].pos,
                                      damage |-> damage, ext |-> ext]]
        /\ run' = doCombatTarget(cq.C, run, cq.W, cq.caster, target, damage, ext)
    /\ UNCHANGED <<gridVars, tileVars, entityVars, calcVars, areaVars, callbackVars, damageVars, listVars>>

\* Combat::doCombat(caster, position), for the caster's tile or the one north.
DoCombatPosition ==
    /\ cq.call.op = "none"
    /\ \E position \in {Home, North} :
       \E ext \in AreaExts(cq.C, cq.caster) :
       \E damage \in getCombatDamage(cq.C, cq.W, cq.caster, NoCreature) :
        /\ cq' = [cq EXCEPT !.call = [op |-> "doCombatPosition", target |-> NoCreature,
                                      position |-> position,
                                      damage |-> damage, ext |-> ext]]
        /\ run' = doCombatPosition(cq.C, run, cq.W, cq.caster, position, damage, ext)
    /\ UNCHANGED <<gridVars, tileVars, entityVars, calcVars, areaVars, callbackVars, damageVars, listVars>>

CombatNext ==
    \/ DoCombatTarget
    \/ DoCombatPosition

SpecCombat == CombatInit /\ [][CombatNext]_vars

(***************************************************************************)
(* SpecCalc: the numeric steps of damage application, each applied to      *)
(* inputs of its own: the leech block of doAreaCombat with the values      *)
(* maxDamageFound and totalTargets can have when it is reached, and the    *)
(* critical roll of doTargetCombat with a damage, a player's critical      *)
(* skills and a roll.                                                      *)
(***************************************************************************)
CalcPlayer == "p1"

\* The world of the scenario with the special skills of the player replaced.
CalcWorld(skills) ==
    [ScenarioWorld("stack") EXCEPT
        !.cr[CalcPlayer] = [f \in DOMAIN @ |-> IF f \in DOMAIN skills THEN skills[f] ELSE @[f]]]

CalcDamage(ptype, pvalue, svalue, critical, origin) ==
    [CombatDamage EXCEPT !.ptype = ptype, !.pvalue = pvalue,
                         !.stype = IF svalue = 0 THEN "COMBAT_NONE" ELSE "COMBAT_FIREDAMAGE",
                         !.svalue = svalue, !.critical = critical, !.origin = origin]

LeechInputs ==
    [fn : {"areaLeech"}, maxDamageFound : {0, 1, 5, 49, 2000}, totalTargets : {0, 1, 2, 10},
     lifeLeechAmount : {0, 1, 10}, manaLeechAmount : {0, 1, 10},
     lifeRoll : Rolls, manaRoll : Rolls]

CriticalInputs ==
    [fn : {"criticalTarget"},
     damage : { CalcDamage(t, v, sv, c, o) :
                  t \in {"COMBAT_PHYSICALDAMAGE", "COMBAT_HEALING"}, v \in {-100, -3, 100},
                  sv \in {0, -50}, c \in BOOLEAN, o \in {"ORIGIN_SPELL", "ORIGIN_CONDITION"} },
     critChance : {0, 50, 100}, critAmount : {0, 50}, roll : {1, 51, 100}]

CalcInit ==
    /\ calcQ \in LeechInputs \cup CriticalInputs
    /\ calcR = NoCalc
    /\ GridIdle
    /\ TileIdle
    /\ CombatIdle
    /\ EntityIdle
    /\ AreaIdle
    /\ CallbackIdle
    /\ DamageIdle
    /\ ListIdle

\* The leech block of doAreaCombat (lines 1114-1153) as the loop reaches it.
AreaLeech ==
    /\ calcR.op = "none"
    /\ calcQ.fn = "areaLeech"
    /\ LET W == CalcWorld([lifeLeechAmount |-> calcQ.lifeLeechAmount,
                           manaLeechAmount |-> calcQ.manaLeechAmount])
           damage == CalcDamage("COMBAT_PHYSICALDAMAGE", -100, 0, FALSE, "ORIGIN_SPELL")
           ext == [NoExt EXCEPT !.lifeRoll = calcQ.lifeRoll, !.manaRoll = calcQ.manaRoll]
           due == areaLeechDue(W, CalcPlayer, damage, calcQ.maxDamageFound, calcQ.totalTargets)
           st == IF due
                 THEN areaLeech(ScenarioRun("stack"), W, CalcPlayer, calcQ.maxDamageFound,
                                calcQ.totalTargets, ext)
                 ELSE ScenarioRun("stack")
       IN  calcR' = [op |-> "areaLeech", log |-> st.log,
                     damage |-> IF due THEN [damage EXCEPT !.leeched = TRUE] ELSE damage]
    /\ UNCHANGED <<calcQ, gridVars, tileVars, combatVars, entityVars, areaVars, callbackVars, damageVars, listVars>>

\* The critical roll of doTargetCombat (lines 884-892) for a player caster.
CriticalTarget ==
    /\ calcR.op = "none"
    /\ calcQ.fn = "criticalTarget"
    /\ LET W == CalcWorld([critChance |-> calcQ.critChance, critAmount |-> calcQ.critAmount])
       IN  calcR' = [op |-> "criticalTarget", log |-> <<>>,
                     damage |-> criticalTarget(W, CalcPlayer, calcQ.damage, calcQ.roll)]
    /\ UNCHANGED <<calcQ, gridVars, tileVars, combatVars, entityVars, areaVars, callbackVars, damageVars, listVars>>

CalcNext ==
    \/ AreaLeech
    \/ CriticalTarget

SpecCalc == CalcInit /\ [][CalcNext]_vars

(***************************************************************************)
(* SpecArea: one AreaCombat, up to MaxSetup setup calls of any kind in any *)
(* order, and then getArea (which does not change the AreaCombat) for a    *)
(* target on the caster's position or next to it.                          *)
(* areaQ remembers the last call that built the cardinal grids, the vector *)
(* it handed to setupArea(vec, rows), and the last diagonal template.      *)
(***************************************************************************)
MaxSetup == 2
MaxLength == 4
MaxSpread == 3
MaxRadius == 9

NoTemplate == [vec |-> <<>>, rows |-> 0]

\* Templates given as vectors: 0 empty, 1 active, 2 origin, 3 active origin.
Templates ==
    { [vec |-> <<3, 1, 0, 0>>, rows |-> 2],
      [vec |-> <<1, 0, 2, 0, 1, 1>>, rows |-> 2],
      [vec |-> <<3, 1>>, rows |-> 1],
      [vec |-> <<0, 3>>, rows |-> 2] }

ExtTemplates ==
    { [vec |-> <<3, 1, 0, 0>>, rows |-> 2],
      [vec |-> <<0, 1, 2, 0>>, rows |-> 2],
      [vec |-> <<1, 3>>, rows |-> 2],
      [vec |-> <<3, 1>>, rows |-> 1],
      NoTemplate }

NoSetup == [fn |-> "none", radius |-> 0, length |-> 0, spread |-> 0]

AreaInit ==
    /\ areaQ = [ac |-> NewAreaCombat, setup |-> NoSetup, T |-> NoTemplate,
                D |-> NoTemplate, junk |-> NoJunk, fault |-> FALSE, calls |-> 0]
    /\ areaR = NoSelection
    /\ GridIdle
    /\ TileIdle
    /\ CombatIdle
    /\ EntityIdle
    /\ CalcIdle
    /\ CallbackIdle
    /\ DamageIdle
    /\ ListIdle

\* AreaCombat::setupArea(vec, rows)
SetupArea ==
    /\ areaQ.calls < MaxSetup
    /\ areaR.op = "none"
    /\ \E t \in Templates :
        areaQ' = [areaQ EXCEPT !.ac = setupAreaVec(@, t.vec, t.rows),
                               !.setup = [NoSetup EXCEPT !.fn = "vec"],
                               !.T = t, !.calls = @ + 1]
    /\ UNCHANGED <<areaR, gridVars, tileVars, combatVars, entityVars, calcVars, callbackVars, damageVars, listVars>>

\* AreaCombat::setupArea(length, spread)
SetupAreaLength ==
    /\ areaQ.calls < MaxSetup
    /\ areaR.op = "none"
    /\ \E length \in 1..MaxLength, spread \in 0..MaxSpread :
        areaQ' = [areaQ EXCEPT !.ac = setupAreaLength(@, length, spread),
                               !.setup = [NoSetup EXCEPT !.fn = "length", !.length = length,
                                                         !.spread = spread],
                               !.T = [vec |-> lengthVec(length, spread), rows |-> length],
                               !.calls = @ + 1]
    /\ UNCHANGED <<areaR, gridVars, tileVars, combatVars, entityVars, calcVars, callbackVars, damageVars, listVars>>

\* AreaCombat::setupArea(radius)
SetupAreaRadius ==
    /\ areaQ.calls < MaxSetup
    /\ areaR.op = "none"
    /\ \E radius \in 0..MaxRadius :
        areaQ' = [areaQ EXCEPT !.ac = setupAreaRadius(@, radius),
                               !.setup = [NoSetup EXCEPT !.fn = "radius", !.radius = radius],
                               !.T = [vec |-> radiusVec(radius), rows |-> RadiusSide],
                               !.calls = @ + 1]
    /\ UNCHANGED <<areaR, gridVars, tileVars, combatVars, entityVars, calcVars, callbackVars, damageVars, listVars>>

\* AreaCombat::setupExtArea(vec, rows).  With more columns than rows the
\* template's mirror() reads and writes outside its arrays.
SetupExtArea ==
    /\ areaQ.calls < MaxSetup
    /\ areaR.op = "none"
    /\ \E t \in ExtTemplates :
        LET m == createArea(t.vec, t.rows)
            out == Len(t.vec) # 0 /\ mirrorOutOfBounds(m)
        IN  \E junk \in IF out THEN [(m.rows * m.cols)..mirrorMaxIndex(m) -> BOOLEAN]
                        ELSE {NoJunk} :
                areaQ' = [areaQ EXCEPT !.ac = setupExtArea(@, t.vec, t.rows, junk),
                                       !.D = IF Len(t.vec) = 0 THEN @ ELSE t,
                                       !.junk = IF Len(t.vec) = 0 THEN @ ELSE junk,
                                       !.fault = IF Len(t.vec) = 0 THEN @ ELSE out,
                                       !.calls = @ + 1]
    /\ UNCHANGED <<areaR, gridVars, tileVars, combatVars, entityVars, calcVars, callbackVars, damageVars, listVars>>

\* AreaCombat::getArea(centerPos, targetPos)
GetArea ==
    /\ areaR.op = "none"
    /\ \E dx \in -1..1, dy \in -1..1 :
        areaR' = [op |-> "getArea", dx |-> dx, dy |-> dy,
                  area |-> getArea(areaQ.ac, Home, <<Home[1] + dx, Home[2] + dy, Home[3]>>)]
    /\ UNCHANGED <<areaQ, gridVars, tileVars, combatVars, entityVars, calcVars, callbackVars, damageVars, listVars>>

AreaNext ==
    \/ SetupArea
    \/ SetupAreaLength
    \/ SetupAreaRadius
    \/ SetupExtArea
    \/ GetArea

SpecArea == AreaInit /\ [][AreaNext]_vars

(***************************************************************************)
(* SpecCallback: one scripted callback of each kind, called once, with a   *)
(* script host that has any number of its EnvLimit environments in use.    *)
(* The value callback is reached through getCombatDamage for the player of *)
(* the scenario, with or without a weapon, under both scripted formulas.   *)
(***************************************************************************)
Callbacks ==
    [set : {TRUE},
     type : {"COMBAT_FORMULA_LEVELMAGIC", "COMBAT_FORMULA_SKILL", "COMBAT_FORMULA_UNDEFINED"},
     scriptInterface : [reserved : 0..EnvLimit],
     callbackIdSet : BOOLEAN, scriptFails : BOOLEAN, min : {-20}, max : {-19}]

\* The player of the scenario, holding a weapon with an element or none.
CallbackWorld(armed) ==
    [ScenarioWorld("stack") EXCEPT
        !.cr[CalcPlayer].weapon = [has |-> armed, damage |-> 10,
                                   elementType |-> "COMBAT_FIREDAMAGE",
                                   elementDamage |-> -5]]

\* A damaging definition with the value callback cb and a built-in formula
\* of the same type that would give a loss.
CallbackCombat(cb) ==
    [ScenarioCombat("COMBAT_PHYSICALDAMAGE", TRUE, FALSE, FALSE, "ORIGIN_SPELL", NoArea)
        EXCEPT !.params.valueCallback = cb,
               !.formulaType = IF cb.type = "COMBAT_FORMULA_SKILL" THEN cb.type
                               ELSE "COMBAT_FORMULA_LEVELMAGIC",
               !.mina = -1 * CoefScale, !.minb = -10 * CoefScale,
               !.maxa = -1 * CoefScale, !.maxb = -10 * CoefScale]

CallbackInit ==
    /\ cbQ \in [kind : {"value", "tile", "target"}, cb : Callbacks, armed : BOOLEAN]
    /\ cbR = NoCallbackRun
    /\ GridIdle
    /\ TileIdle
    /\ CombatIdle
    /\ EntityIdle
    /\ CalcIdle
    /\ AreaIdle
    /\ DamageIdle
    /\ ListIdle

\* Combat::getCombatDamage for a player and a definition with a value callback.
GetCombatDamage ==
    /\ cbR.op = "none"
    /\ cbQ.kind = "value"
    /\ \E damage \in getCombatDamage(CallbackCombat(cbQ.cb), CallbackWorld(cbQ.armed),
                                     CalcPlayer, "p2") :
        LET o == getMinMaxValuesScript(cbQ.cb)
        IN  cbR' = [op |-> "getCombatDamage", damage |-> damage, reserved |-> o.reserved,
                    reports |-> o.reports, called |-> o.called]
    /\ UNCHANGED <<cbQ, gridVars, tileVars, combatVars, entityVars, calcVars, areaVars, damageVars, listVars>>

\* TileCallback::onTileCombat
OnTileCombat ==
    /\ cbR.op = "none"
    /\ cbQ.kind = "tile"
    /\ LET o == onTileCombat(cbQ.cb)
       IN  cbR' = [op |-> "onTileCombat", damage |-> CombatDamage, reserved |-> o.reserved,
                   reports |-> o.reports, called |-> o.called]
    /\ UNCHANGED <<cbQ, gridVars, tileVars, combatVars, entityVars, calcVars, areaVars, damageVars, listVars>>

\* TargetCallback::onTargetCombat
OnTargetCombat ==
    /\ cbR.op = "none"
    /\ cbQ.kind = "target"
    /\ LET o == onTargetCombat(cbQ.cb)
       IN  cbR' = [op |-> "onTargetCombat", damage |-> CombatDamage, reserved |-> o.reserved,
                   reports |-> o.reports, called |-> o.called]
    /\ UNCHANGED <<cbQ, gridVars, tileVars, combatVars, entityVars, calcVars, areaVars, damageVars, listVars>>

CallbackNext ==
    \/ GetCombatDamage
    \/ OnTileCombat
    \/ OnTargetCombat

SpecCallback == CallbackInit /\ [][CallbackNext]_vars

(***************************************************************************)
(* SpecDamage: getCombatDamage asked once, for every formula type, with no *)
(* caster, a player or a monster, with or without raw combat values, a     *)
(* weapon and a value callback, and with whole and fractional coefficients *)
(* of both signs.                                                          *)
(***************************************************************************)
DamageFormulas ==
    {"COMBAT_FORMULA_DAMAGE", "COMBAT_FORMULA_LEVELMAGIC", "COMBAT_FORMULA_SKILL",
     "COMBAT_FORMULA_UNDEFINED"}

\* Every creature has level 1 and magic level 1; raw and armed say whether
\* it exposes raw combat values and holds a weapon with an element.
DamageWorld(raw, armed) ==
    [ScenarioWorld("stack") EXCEPT
        !.cr = [c \in Creatures |->
                  [ScenarioCreature("stack", c) EXCEPT
                      !.level = 1, !.magLevel = 1,
                      !.combatValues = [has |-> raw, min |-> -7, max |-> -3],
                      !.weapon = [has |-> armed, damage |-> 3,
                                  elementType |-> "COMBAT_FIREDAMAGE",
                                  elementDamage |-> -5]]]]

\* A value callback whose script returns -20 and -19, on a free script host.
DamageCallback(formulaType) ==
    [set |-> TRUE,
     type |-> IF formulaType = "COMBAT_FORMULA_SKILL" THEN formulaType
              ELSE "COMBAT_FORMULA_LEVELMAGIC",
     scriptInterface |-> [reserved |-> 0], callbackIdSet |-> TRUE,
     scriptFails |-> FALSE, min |-> -20, max |-> -19]

\* The definition getCombatDamage is asked about.
DamageCombat(q) ==
    [ScenarioCombat(q.combatType, TRUE, FALSE, FALSE, q.origin, NoArea)
        EXCEPT !.params.valueCallback = IF q.callback THEN DamageCallback(q.formulaType)
                                        ELSE [set |-> FALSE],
               !.formulaType = q.formulaType,
               !.mina = q.mina, !.minb = q.minb, !.maxa = q.maxa, !.maxb = q.maxb]

\* The coefficients, in 1/CoefScale: mina is -1.5 or 1, maxa is -2 or 2.5,
\* minb is 0 or 0.5, maxb is 0 or -3.5.
DamageInit ==
    /\ dmgQ \in [formulaType : DamageFormulas, creature : {NoCreature, "p1", "m1"},
                 raw : BOOLEAN, armed : BOOLEAN, callback : BOOLEAN,
                 combatType : {"COMBAT_PHYSICALDAMAGE", "COMBAT_HEALING"},
                 origin : {"ORIGIN_SPELL", "ORIGIN_MELEE"},
                 mina : {-3, 2}, maxa : {-4, 5}, minb : {0, 1}, maxb : {0, -7}]
    /\ dmgR = NoDamageCall
    /\ GridIdle
    /\ TileIdle
    /\ CombatIdle
    /\ EntityIdle
    /\ CalcIdle
    /\ AreaIdle
    /\ CallbackIdle
    /\ ListIdle

\* Combat::getCombatDamage(creature, target)
GetDamage ==
    /\ dmgR.op = "none"
    /\ \E damage \in getCombatDamage(DamageCombat(dmgQ), DamageWorld(dmgQ.raw, dmgQ.armed),
                                     dmgQ.creature, "p2") :
        dmgR' = [op |-> "getCombatDamage", damage |-> damage]
    /\ UNCHANGED <<dmgQ, gridVars, tileVars, combatVars, entityVars, calcVars, areaVars,
                   callbackVars, listVars>>

DamageNext == GetDamage

SpecDamage == DamageInit /\ [][DamageNext]_vars

(***************************************************************************)
(* SpecList: getCombatArea asked once, with no area or an area built from  *)
(* a template, the caster on the target or on one of its four sides, the   *)
(* target on a middle layer, the last layer or beyond it, some of the      *)
(* locations already in the map and some without line of sight.  The       *)
(* target is far enough from the map's edge for every projected cell to    *)
(* have coordinates of its own.                                            *)
(***************************************************************************)
ListTarget(z) == <<4, 4, z>>

ListCenters(z) == {<<4, 4, z>>, <<4, 3, z>>, <<4, 5, z>>, <<3, 4, z>>, <<5, 4, z>>}

ListAreas == {NoArea} \cup { setupAreaVec(NewAreaCombat, T.vec, T.rows) : T \in Templates }

\* The locations the map may already hold, and those isSightClear may refuse.
ListKnown(z) == {<<4, 4, z>>, <<5, 4, z>>, <<4, 5, z>>}

ListHidden(z) == {<<5, 4, z>>, <<4, 3, z>>, <<3, 4, z>>}

ListInit ==
    /\ \E z \in {7, MAP_MAX_LAYERS - 1, MAP_MAX_LAYERS} :
       \E area \in ListAreas, centerPos \in ListCenters(z) :
       \E known \in SUBSET ListKnown(z), blocked \in SUBSET ListHidden(z) :
          listQ = [area |-> area, centerPos |-> centerPos, targetPos |-> ListTarget(z),
                   tiles |-> known, blocked |-> blocked]
    /\ listR = NoListCall
    /\ GridIdle
    /\ TileIdle
    /\ CombatIdle
    /\ EntityIdle
    /\ CalcIdle
    /\ AreaIdle
    /\ CallbackIdle
    /\ DamageIdle

\* getCombatArea(centerPos, targetPos, area)
GetCombatArea ==
    /\ listR.op = "none"
    /\ LET st == [tiles |-> [pos \in listQ.tiles |-> StaticTile(pos)]]
           r == getCombatArea(st, listQ.centerPos, listQ.targetPos, listQ.area,
                              listQ.blocked)
       IN  listR' = [op |-> "getCombatArea", vec |-> r.vec, tiles |-> DOMAIN r.st.tiles]
    /\ UNCHANGED <<listQ, gridVars, tileVars, combatVars, entityVars, calcVars, areaVars,
                   callbackVars, damageVars>>

ListNext == GetCombatArea

SpecList == ListInit /\ [][ListNext]_vars

(***************************************************************************)
(* Claims about the grid transforms (SpecGrid).                            *)
(***************************************************************************)
Repeated(op, n) == Len(ops) = n /\ LastOp = op

\* The origin cell lies inside the grid.
CenterInside(m) == m.center[1] \in 0..(m.cols - 1) /\ m.center[2] \in 0..(m.rows - 1)

\* C8: for every grid g of any dimensions and any origin, mirror applied
\* twice, flip applied twice and transpose applied twice each return a grid
\* equal to g in dimensions, cells and origin.  (Stated for the runs whose
\* accesses all stay inside the arrays.)
C8_InvolutionsRestoreGrid ==
    (~fault /\ (Repeated("mirror", 2) \/ Repeated("flip", 2) \/ Repeated("transpose", 2)))
        => cur = g

\* The origin the claim C9 gives for each transform of a grid m.
ClaimedCenter(op, m) ==
    CASE op = "mirror"    -> <<m.cols - 1 - m.center[1], m.center[2]>>
      [] op = "flip"      -> <<m.center[1], m.rows - 1 - m.center[2]>>
      [] op = "transpose" -> <<m.center[2], m.center[1]>>
      [] op = "rotate90"  -> <<m.rows - 1 - m.center[2], m.center[1]>>
      [] op = "rotate180" -> <<m.cols - 1 - m.center[1], m.rows - 1 - m.center[2]>>
      [] OTHER            -> <<m.center[2], m.cols - 1 - m.center[1]>>

\* C9: the origin of a transformed grid is the position the transform moves
\* the original origin cell to (mirror (cols-1-x, y), flip (x, rows-1-y),
\* transpose (y, x), rotate90 (rows-1-y, x), rotate180 (cols-1-x, rows-1-y))
\* and it lies inside the new grid.
C9_OriginFollowsTransform ==
    (~fault /\ Len(ops) = 1 /\ LastOp # "rotate270")
        => (cur.center = ClaimedCenter(LastOp, g) /\ CenterInside(cur))

\* C10: rotate90 applied four times yields a grid equal to g in dimensions,
\* cells and origin; applied twice it equals rotate180(g) and applied three
\* times rotate270(g); and no transform modifies the grid it is applied to.
C10_RotationState ==
    /\ Repeated("rotate90", 4) => cur = g
    /\ Repeated("rotate90", 2) => cur = rotate180(g)
    /\ Repeated("rotate90", 3) => cur = rotate270(g)

C10_RotationsCompose == [] C10_RotationState /\ [][g' = g]_vars

\* A non-square grid with an off-corner origin and an asymmetric pattern,
\* rotated four times.
C10_Witness ==
    /\ Repeated("rotate90", 4)
    /\ g.rows # g.cols
    /\ g.center # <<0, 0>>
    /\ rotate90(g) # g /\ rotate180(g) # g
    /\ \E i, j \in DOMAIN g.arr : g.arr[i] /\ ~g.arr[j]

(***************************************************************************)
(* Claims about location eligibility (SpecTile).                           *)
(***************************************************************************)
TileCallDone == tileR # NoResult

TileCasterHoldsFlag ==
    /\ tileQ.caster # NoCreature
    /\ tileQ.W.cr[tileQ.caster].player
    /\ "IgnoreProtectionZone" \in tileQ.W.cr[tileQ.caster].flags

\* The built-in rules other than the protection-zone rule: the tile blocks
\* projectiles, changes floor or holds a teleport, or the caster is on
\* another layer.
TileRejectedBeforeZone ==
    \/ tileQ.tile.blockProjectile
    \/ "FLOORCHANGE" \in tileQ.tile.flags
    \/ tileQ.tile.teleport
    \/ tileQ.caster # NoCreature /\ tileQ.W.cr[tileQ.caster].pos[3] # tileQ.tile.pos[3]

\* The protection-zone rule, which the privilege flag skips.
TileRejectedByZone ==
    /\ ~TileCasterHoldsFlag
    /\ tileQ.aggressive
    /\ "PROTECTIONZONE" \in tileQ.tile.flags

EntityKinds == {"player", "monster", "summon"}

EntityZones == {{}, {"PVPZONE"}, {"NOPVPZONE"}, {"PROTECTIONZONE"}}

ProtectionLevel == 10

EntityCreature(kind, flags, zone, level, pvp, skull, skullTo) ==
    [player |-> kind = "player", monster |-> kind # "player", flags |-> flags,
     tileFlags |-> zone, master |-> IF kind = "summon" THEN "owner" ELSE NoCreature,
     level |-> level, allowsPvp |-> pvp, skull |-> skull,
     skullTo |-> [c \in {"a", "t", "owner"} |-> skullTo]]

EntityWorlds ==
    { [cr |-> [c \in {"a", "t", "owner"} |->
                 IF c = "a" THEN EntityCreature(ak, af, az, al, ap, sk, st)
                 ELSE IF c = "owner" THEN EntityCreature("player", af, az, al, ap, sk, st)
                 ELSE EntityCreature(tk, tf, tz, tl, tp, "SKULL_NONE", "SKULL_NONE")],
       worldType |-> wt, protectionLevel |-> ProtectionLevel] :
        ak \in EntityKinds, tk \in {"player", "monster"},
        af \in {{}, {"CannotAttackPlayer"}}, tf \in {{}, {"CannotBeAttacked"}},
        az \in EntityZones, tz \in EntityZones,
        al \in {ProtectionLevel - 1, ProtectionLevel},
        tl \in {ProtectionLevel - 1, ProtectionLevel},
        ap \in BOOLEAN, tp \in BOOLEAN,
        sk \in {"SKULL_NONE", "SKULL_BLACK"}, st \in {"SKULL_NONE", "SKULL_WHITE"},
        wt \in {"WORLD_TYPE_PVP", "WORLD_TYPE_NO_PVP"} }

EntityInit ==
    /\ entQ \in [W : EntityWorlds, attacker : {"a"}, target : {"t"}]
    /\ entR = NoEntityCall
    /\ GridIdle
    /\ TileIdle
    /\ CombatIdle
    /\ CalcIdle
    /\ AreaIdle
    /\ CallbackIdle
    /\ DamageIdle
    /\ ListIdle

\* Combat::canDoCombat(attacker, target)
CanDoCombat ==
    /\ entR.op = "none"
    /\ \E hook \in HookVerdicts :
        entR' = [op |-> "canDoCombat", hook |-> hook,
                 ret |-> canDoCombat(entQ.W, entQ.attacker, entQ.target, hook),
                 protected |-> FALSE]
    /\ UNCHANGED <<entQ, gridVars, tileVars, combatVars, calcVars, areaVars, callbackVars, damageVars, listVars>>

\* Combat::isProtected(attacker, target), which takes two players.
IsProtected ==
    /\ entR.op = "none"
    /\ entQ.W.cr[entQ.attacker].player /\ entQ.W.cr[entQ.target].player
    /\ entR' = [op |-> "isProtected", hook |-> "none", ret |-> "none",
                protected |-> isProtected(entQ.W, entQ.attacker, entQ.target)]
    /\ UNCHANGED <<entQ, gridVars, tileVars, combatVars, calcVars, areaVars, callbackVars, damageVars, listVars>>

EntityNext ==
    \/ CanDoCombat
    \/ IsProtected

SpecEntity == EntityInit /\ [][EntityNext]_vars

(***************************************************************************)
(* Claims about the resolutions (SpecCombat).  They read the trace the     *)
(* resolution left in run.log.                                             *)
(***************************************************************************)
Log == run.log

Typed == cq.C.params.combatType # "COMBAT_NONE"

\* A health or mana change applied to a target of the action (not a leech).
IsHit(e) == e.ev \in {"changeHealth", "changeMana"} /\ e.site = "hit"

\* The entries that show a target was handed to target application: the call
\* of the block routine, or the mana change that replaces it for mana drain.
Handed == { i \in DOMAIN Log : Log[i].ev = "blockHit"
                               \/ (Log[i].ev = "changeMana" /\ Log[i].site = "hit") }

SuccessfulHits == { i \in DOMAIN Log : IsHit(Log[i]) /\ Log[i].ok }

Dealt(i) == Abs(Log[i].damage.pvalue + Log[i].damage.svalue)

MaxOf(S) == IF S = {} THEN 0 ELSE CHOOSE x \in S : \A y \in S : y <= x

Touched(c) ==
    \/ \E i \in DOMAIN Log : /\ Log[i].ev \in {"addCondition", "removeCondition",
                                               "targetCallback"}
                             /\ Log[i].target = c
    \/ run.cond[c] # {[type |-> "CONDITION_PARALYZE", owner |-> "world"]}

TileTouched(pos) ==
    \E i \in DOMAIN Log : /\ Log[i].ev \in {"addItem", "tileCallback", "magicEffect"}
                          /\ Log[i].pos = pos

\* C1: in an area damage resolution, the caster's leech is computed after
\* every creature of the damage set was processed, from the largest
\* |primary + secondary| over all the successful hits of the resolution and
\* from the number of all its successful hits.
C1_LeechAfterAllHits ==
    (cq.call.op = "doCombatPosition" /\ Typed) =>
        \A k \in DOMAIN Log : Log[k].ev = "leech" =>
            /\ \A j \in DOMAIN Log : j > k => ~(IsHit(Log[j]) \/ Log[j].ev = "blockHit")
            /\ Log[k].maxDamageFound = MaxOf({ Dealt(i) : i \in SuccessfulHits })
            /\ Log[k].totalTargets = Cardinality(SuccessfulHits)

\* C2: in an area resolution with no combat type, a creature that fails
\* entity eligibility gets no condition, no dispel and no target callback,
\* and a tile that fails canDoCombat(caster, tile, aggressive) gets no field,
\* no tile callback, no visual, and none of its creatures is touched.
C2_IneligibleUntouched ==
    (cq.call.op = "doCombatPosition" /\ ~Typed) =>
        /\ \A c \in Creatures :
              ~canCombat(cq.W, cq.C.params, cq.caster, c, cq.call.ext) => ~Touched(c)
        /\ \A pos \in DOMAIN run.tiles :
              canDoCombatTile(cq.W, cq.caster, run.tiles[pos], cq.C.params.aggressive,
                              tileHook(cq.call.ext, pos)).ret # "RETURNVALUE_NOERROR"
              => /\ ~TileTouched(pos)
                 /\ \A i \in DOMAIN run.tiles[pos].creatures :
                        ~Touched(run.tiles[pos].creatures[i])

\* The position the direction is selected from (the caster's, or the target
\* position itself when there is no caster).
CallCenter == IF cq.caster # NoCreature THEN cq.W.cr[cq.caster].pos ELSE cq.call.position

UnbuiltCall ==
    /\ cq.call.op = "doCombatPosition"
    /\ ~cq.C.area.null
    /\ areaUnbuilt(cq.C.area, CallCenter, cq.call.position)

\* C3: when the selected direction has no grid built, no empty grid is
\* substituted for it and the resolution does not go on from an empty tile
\* list: no travel visual, no tile or creature processing.
C3_UnbuiltDirectionStops ==
    UnbuiltCall =>
        /\ getArea(cq.C.area, CallCenter, cq.call.position) # EmptyMatrix
        /\ Log = <<>>

\* C4: with a target callback configured, every target handed to target
\* application gets the callback exactly once, whether the hit was vetoed,
\* its health or mana change failed, or it succeeded.
C4_CallbackForEveryTarget ==
    (cq.call.op # "none" /\ Typed /\ cq.C.params.targetCallback) =>
        \A i \in Handed :
            Cardinality({ j \in DOMAIN Log : /\ Log[j].ev = "targetCallback"
                                             /\ Log[j].target = Log[i].target }) = 1

\* C5: in damage application, a condition is attached to a creature only if
\* the health or mana change of its hit succeeded and the blocking outcome
\* recorded for that hit is none or armor.
C5_ConditionsOnlyUnblocked ==
    (cq.call.op # "none" /\ Typed) =>
        \A j \in DOMAIN Log : Log[j].ev = "addCondition" =>
            /\ \E i \in 1..(j - 1) : /\ IsHit(Log[i]) /\ Log[i].ok
                                     /\ Log[i].target = Log[j].target
            /\ \A i \in DOMAIN Log :
                  (Log[i].ev = "blockHit" /\ Log[i].target = Log[j].target)
                  => Log[i].blockType \in {"BLOCK_NONE", "BLOCK_ARMOR"}

ImpactShown ==
    \E i \in DOMAIN Log : /\ Log[i].ev = "magicEffect"
                          /\ Log[i].effect = cq.C.params.impactEffect
                          /\ Log[i].pos = cq.W.cr[cq.call.target].pos

TypedTargetCall == cq.call.op = "doCombatTarget" /\ Typed

\* C7 (as stated): in single-target resolution with a combat type, the impact
\* visual is shown only in runs where the damage is handed to doTargetCombat.
C7_ImpactOnlyWhenLanded ==
    TypedTargetCall => (ImpactShown => Handed # {})

\* C7 (amended): the impact visual is shown only when the damage is handed to
\* doTargetCombat or the caster is the target; when the caster is the target
\* and an impact visual is configured it is shown although an aggressive
\* action on oneself is rejected.
C7_ImpactWhenLandedOrSelf ==
    TypedTargetCall =>
        /\ ImpactShown => (Handed # {} \/ cq.caster = cq.call.target)
        /\ (cq.caster = cq.call.target /\ cq.C.params.impactEffect # "CONST_ME_NONE")
              => ImpactShown

\* C7 witness: an aggressive action of p1 on itself: rejected, nothing handed
\* to doTargetCombat, and the impact visual shown.
C7_Witness ==
    /\ TypedTargetCall
    /\ cq.caster = "p1" /\ cq.call.target = "p1"
    /\ cq.C.params.aggressive
    /\ Handed = {}
    /\ ImpactShown

PlainTargetCall == cq.call.op = "doCombatTarget" /\ ~Typed

Attached(c, type) ==
    \E i \in DOMAIN Log : /\ Log[i].ev = "addCondition"
                          /\ Log[i].target = c /\ Log[i].type = type

\* C11: in single-target resolution with no combat type that passes
\* eligibility, every condition of the list is attached to the target unless
\* the target is immune to it (always when the caster is the target),
\* whatever the origin of the definition.
C11_EveryConditionAttached ==
    (/\ PlainTargetCall
     /\ canCombat(cq.W, cq.C.params, cq.caster, cq.call.target, cq.call.ext)) =>
        \A k \in DOMAIN cq.C.params.conditionList :
            (\/ cq.caster = cq.call.target
             \/ cq.C.params.conditionList[k] \notin cq.W.cr[cq.call.target].immune)
            => Attached(cq.call.target, cq.C.params.conditionList[k])


\* The damage of the call after the caster-stat scaling alone, whichever
\* divisor the path scales with.
ScaledOnly ==
    IF isPlayer(cq.W, cq.caster)
    THEN {scaleDamage(cq.W, cq.caster, cq.call.damage, 100),
          scaleDamage(cq.W, cq.caster, cq.call.damage, 230)}
    ELSE {cq.call.damage}

\* C14: for every hit that is not mana drain, in single-target and in area
\* application alike, the stages run in the order scaling, block routine,
\* player-vs-player halving, critical bonus, health change: the block routine
\* is handed the damage after the scaling alone, before any halving and
\* before any critical bonus.
C14_BlockBeforeHalvingAndCritical ==
    (cq.call.op # "none" /\ Typed) =>
        \A i \in DOMAIN Log : Log[i].ev = "blockHit" =>
            Log[i].damage \in ScaledOnly

(***************************************************************************)
(* Claims about the pair rules (SpecEntity).                               *)
(***************************************************************************)
EntityAsked(op) == entR.op = op

AttackerOfPlayerSide ==
    \/ entQ.W.cr[entQ.attacker].player
    \/ /\ entQ.W.cr[entQ.attacker].master # NoCreature
       /\ entQ.W.cr[entQ.W.cr[entQ.attacker].master].player

ZoneOf(c) == getZone(entQ.W, c)

NoPvpPlayerCase ==
    /\ EntityAsked("canDoCombat")
    /\ entQ.W.worldType = "WORLD_TYPE_NO_PVP"
    /\ AttackerOfPlayerSide
    /\ entQ.W.cr[entQ.target].player

\* C12: in a no-PvP world, canDoCombat(attacker, target) for an attacker that
\* is a player or a player-owned summon and a target that is a player returns
\* NOERROR only when both stand in a PvP zone; in every other combination of
\* zones it returns a rejection whatever the hook answers.
C12_NoPvpWorldNeedsPvpZone ==
    NoPvpPlayerCase =>
        /\ entR.ret = "RETURNVALUE_NOERROR" =>
              (ZoneOf(entQ.attacker) = "ZONE_PVP" /\ ZoneOf(entQ.target) = "ZONE_PVP")
        /\ ~(ZoneOf(entQ.attacker) = "ZONE_PVP" /\ ZoneOf(entQ.target) = "ZONE_PVP") =>
              entR.ret # "RETURNVALUE_NOERROR"

\* C12 witness: a summon of a player attacks a player in a no-PvP world, both
\* in a PvP zone, and the call returns NOERROR.
C12_Witness ==
    /\ NoPvpPlayerCase
    /\ entQ.W.cr[entQ.attacker].master # NoCreature
    /\ ZoneOf(entQ.attacker) = "ZONE_PVP" /\ ZoneOf(entQ.target) = "ZONE_PVP"
    /\ entR.ret = "RETURNVALUE_NOERROR"

Rejections == {"RETURNVALUE_YOUMAYNOTATTACKTHISPLAYER",
               "RETURNVALUE_YOUMAYNOTATTACKTHISCREATURE",
               "RETURNVALUE_ACTIONNOTPERMITTEDINANOPVPZONE"}

BelowProtection(c) == entQ.W.cr[c].level < entQ.W.protectionLevel

ProtectedByRule ==
    \/ BelowProtection(entQ.attacker) \/ BelowProtection(entQ.target)
    \/ ~entQ.W.cr[entQ.attacker].allowsPvp \/ ~entQ.W.cr[entQ.target].allowsPvp
    \/ /\ entQ.W.cr[entQ.attacker].skull = "SKULL_BLACK"
       /\ entQ.W.cr[entQ.attacker].skullTo[entQ.target] = "SKULL_NONE"

PlainPlayerPair ==
    /\ EntityAsked("canDoCombat")
    /\ entQ.W.cr[entQ.attacker].player /\ entQ.W.cr[entQ.target].player
    /\ entQ.W.cr[entQ.attacker].flags = {} /\ entQ.W.cr[entQ.target].flags = {}
    /\ entQ.W.cr[entQ.attacker].allowsPvp /\ entQ.W.cr[entQ.target].allowsPvp
    /\ entQ.W.cr[entQ.attacker].skull = "SKULL_NONE"
    /\ ZoneOf(entQ.attacker) = "ZONE_NORMAL" /\ ZoneOf(entQ.target) = "ZONE_NORMAL"
    /\ entQ.W.worldType = "WORLD_TYPE_PVP"

\* C13: isProtected(attacker, target) is true exactly when either player's
\* level is below the protection level, or either vocation forbids PvP, or
\* the attacker has a black skull and shows no skull toward the target; so for
\* two unflagged players with PvP vocations and no skull, outside any special
\* zone in a PvP world, canDoCombat returns the hook's verdict when both are at
\* or above the protection level and a rejection when either is below it.
C13_ProtectionRule ==
    /\ EntityAsked("isProtected") => (entR.protected = ProtectedByRule)
    /\ PlainPlayerPair =>
          IF BelowProtection(entQ.attacker) \/ BelowProtection(entQ.target)
              THEN entR.ret \in Rejections
              ELSE entR.ret = entR.hook

\* C13 witness: the attacker alone is below the protection level, the hook would
\* have allowed the combat, and canDoCombat rejects it.
C13_Witness ==
    /\ PlainPlayerPair
    /\ BelowProtection(entQ.attacker) /\ ~BelowProtection(entQ.target)
    /\ entR.hook = "RETURNVALUE_NOERROR"
    /\ entR.ret = "RETURNVALUE_YOUMAYNOTATTACKTHISPLAYER"


(***************************************************************************)
(* Claims about the numeric steps (SpecCalc).                              *)
(***************************************************************************)
\* round(base + extras), base = maxDamageFound * skill / 100 and
\* extras = base * extraPercent / 100 * (totalTargets - 1), for values >= 0.
LeechByFormula(skill, extraPercent) ==
    LET base100 == calcQ.maxDamageFound * skill
        extras10000 == base100 * extraPercent * (calcQ.totalTargets - 1)
    IN  (base100 * 100 + extras10000 + 5000) \div 10000

LeechChanges(ev) ==
    { i \in DOMAIN calcR.log : calcR.log[i].ev = ev /\ calcR.log[i].site = "leech" }

LeechReached ==
    /\ calcR.op = "areaLeech"
    /\ calcQ.maxDamageFound > 0 /\ calcQ.totalTargets > 0

LeechRule(ev, skill, extraPercent, roll) ==
    /\ LeechChanges(ev) # {} <=>
          (skill > 0 /\ roll <= 50 /\ LeechByFormula(skill, extraPercent) > 0)
    /\ \A i \in LeechChanges(ev) :
          /\ calcR.log[i].target = CalcPlayer
          /\ calcR.log[i].damage.pvalue = LeechByFormula(skill, extraPercent)
          /\ calcR.log[i].damage.leeched
          /\ calcR.log[i].damage.origin = "ORIGIN_NONE"

CriticalAsked == calcR.op = "criticalTarget"

CriticalExcluded ==
    \/ calcQ.damage.ptype = "COMBAT_HEALING"
    \/ calcQ.damage.origin = "ORIGIN_CONDITION"
    \/ calcQ.damage.critical
    \/ calcQ.critChance = 0 \/ calcQ.critAmount = 0

\* value * amount / 100 rounded half away from zero.
CriticalBonus(value) ==
    IF value >= 0 THEN (value * calcQ.critAmount + 50) \div 100
    ELSE -((-value * calcQ.critAmount + 50) \div 100)

\* C16: in single-target application by a player whose critical chance and
\* amount are both > 0, a landed roll adds round(value * amount / 100) to the
\* primary and to the secondary component and sets critical; with chance 100
\* the roll always lands, so amount 50 turns a magnitude of 100 into 150; no
\* critical is rolled when the damage is healing, of condition origin, already
\* critical, or when chance or amount is 0.
C16_SingleTargetCritical ==
    CriticalAsked =>
        /\ CriticalExcluded => calcR.damage = calcQ.damage
        /\ (~CriticalExcluded /\ calcQ.roll <= calcQ.critChance) =>
              /\ calcR.damage.pvalue = calcQ.damage.pvalue + CriticalBonus(calcQ.damage.pvalue)
              /\ calcR.damage.svalue = calcQ.damage.svalue + CriticalBonus(calcQ.damage.svalue)
              /\ calcR.damage.critical
        /\ (~CriticalExcluded /\ calcQ.critChance = 100 /\ calcQ.critAmount = 50
                /\ Abs(calcQ.damage.pvalue) = 100) =>
              (Abs(calcR.damage.pvalue) = 150 /\ calcR.damage.critical)

\* C16 witness: chance 100, amount 50 and the highest roll turn a loss of 100
\* into a critical loss of 150.
C16_Witness ==
    /\ CriticalAsked
    /\ calcQ.critChance = 100 /\ calcQ.critAmount = 50 /\ calcQ.roll = 100
    /\ calcQ.damage.pvalue = -100 /\ ~calcQ.damage.critical
    /\ calcR.damage.pvalue = -150 /\ calcR.damage.critical


(***************************************************************************)
(* Claims about the area setups (SpecArea).                                *)
(***************************************************************************)
AreaSelected == areaR.op = "getArea"

\* The grid of the last template handed to setupArea(vec, rows), and of the
\* last diagonal template.
TemplateGrid == createArea(areaQ.T.vec, areaQ.T.rows)

DiagonalGrid == createArea(areaQ.D.vec, areaQ.D.rows)

CardinalsBuilt == areaQ.setup.fn # "none"

DiagonalsBuilt == areaQ.D.rows # 0

\* C17: for an area built from a template T by setupArea, with dx, dy the
\* target position minus the caster position, the grid used is rotate270(T)
\* (west) if dx < 0, rotate90(T) (east) if dx > 0, otherwise T (north) if
\* dy < 0 and rotate180(T) (south) if dy >= 0; when diagonals were set up from
\* a template D and dx, dy are both nonzero it is D (northwest), mirror(D)
\* (northeast), flip(D) (southwest) or transpose(D) (southeast).
C17_GridByDirection ==
    (AreaSelected /\ CardinalsBuilt) =>
        areaR.area =
            IF DiagonalsBuilt /\ areaR.dx # 0 /\ areaR.dy # 0
            THEN (IF areaR.dx < 0 /\ areaR.dy < 0 THEN DiagonalGrid
                  ELSE IF areaR.dx > 0 /\ areaR.dy < 0 THEN mirror(DiagonalGrid, areaQ.junk)
                  ELSE IF areaR.dx < 0 /\ areaR.dy > 0 THEN flip(DiagonalGrid)
                  ELSE transpose(DiagonalGrid))
            ELSE IF areaR.dx < 0 THEN rotate270(TemplateGrid)
            ELSE IF areaR.dx > 0 THEN rotate90(TemplateGrid)
            ELSE IF areaR.dy < 0 THEN TemplateGrid
            ELSE rotate180(TemplateGrid)

\* C17 witness: cardinals and diagonals are built and a target to the
\* northeast gets the mirror of the diagonal template, a grid other than the
\* template itself.
C17_Witness ==
    /\ AreaSelected /\ CardinalsBuilt /\ DiagonalsBuilt /\ ~areaQ.fault
    /\ areaR.dx > 0 /\ areaR.dy < 0
    /\ areaR.area = mirror(DiagonalGrid, NoJunk)
    /\ areaR.area # DiagonalGrid

NorthGrid == areaQ.ac.areas["DIRECTION_NORTH"]

RadiusBuilt == areaQ.setup.fn = "radius"

\* C18: for every radius, setupArea(radius) yields a 13x13 grid in which a
\* cell is active exactly when its ring value in the fixed template is nonzero
\* and <= radius, with the origin at the center cell.
C18_RadiusActivatesRings ==
    RadiusBuilt =>
        /\ NorthGrid.rows = RadiusSide /\ NorthGrid.cols = RadiusSide
        /\ NorthGrid.center = <<6, 6>>
        /\ \A row \in 0..(RadiusSide - 1), col \in 0..(RadiusSide - 1) :
              Cell(NorthGrid, row, col) <=>
                  (/\ RadiusTemplate[row + 1][col + 1] # 0
                   /\ RadiusTemplate[row + 1][col + 1] <= areaQ.setup.radius)

LengthBuilt == areaQ.setup.fn = "length"

\* The columns the claim C19 gives the template.
LengthCols ==
    IF areaQ.setup.spread = 0 THEN 1
    ELSE ((areaQ.setup.length - (areaQ.setup.length % areaQ.setup.spread))
             \div areaQ.setup.spread) * 2 + 1

\* The columns lost on each side before row (counted from 0).
LengthNarrowed(row) ==
    IF areaQ.setup.spread = 0 THEN 0 ELSE row \div areaQ.setup.spread

\* C19: setupArea(length, spread), length >= 1 and spread >= 0, yields a
\* north template of length rows and ((length - length mod spread) / spread)
\* * 2 + 1 columns (1 when spread = 0) in which the active cells of every row
\* are a non-empty window symmetric about the center column that loses one
\* column on each side after every spread rows; exactly one cell is the
\* origin, the center cell of the last row; so for length 3, spread 1 and a
\* target straight north the selected grid has its origin at that tip cell.
C19_LengthSpreadTemplate ==
    LengthBuilt =>
        /\ NorthGrid.rows = areaQ.setup.length /\ NorthGrid.cols = LengthCols
        /\ \A row \in 0..(NorthGrid.rows - 1) :
              /\ LengthNarrowed(row) <= LengthCols - 1 - LengthNarrowed(row)
              /\ \A col \in 0..(LengthCols - 1) :
                    Cell(NorthGrid, row, col) <=>
                        (/\ col >= LengthNarrowed(row)
                         /\ col <= LengthCols - 1 - LengthNarrowed(row))
        /\ Cardinality({ k \in DOMAIN areaQ.T.vec : areaQ.T.vec[k] \in {2, 3} }) = 1
        /\ NorthGrid.center = <<(LengthCols - 1) \div 2, areaQ.setup.length - 1>>
        /\ (AreaSelected /\ areaQ.setup.length = 3 /\ areaQ.setup.spread = 1
                /\ areaR.dx = 0 /\ areaR.dy = -1) =>
              (areaR.area = NorthGrid /\ areaR.area.center = <<3, 2>>)

\* C19 witness: length 3 and spread 1, a target straight north, and the grid
\* selected has its origin on the active center cell of its last row.
C19_Witness ==
    /\ LengthBuilt /\ AreaSelected
    /\ areaQ.setup.length = 3 /\ areaQ.setup.spread = 1
    /\ areaR.dx = 0 /\ areaR.dy = -1
    /\ areaR.area.rows = 3 /\ areaR.area.cols = 7
    /\ areaR.area.center = <<3, 2>> /\ Cell(areaR.area, 2, 3)


(***************************************************************************)
(* Claims about the scripted callbacks (SpecCallback).                     *)
(***************************************************************************)
CallbackCalled == cbR.op # "none"

EnvInUse == cbQ.cb.scriptInterface.reserved

CannotReserve == EnvInUse >= EnvLimit

\* C20: when a scripted callback cannot reserve the script environment, the
\* fault is reported, the hook is not called and the engine goes on: the value
\* callback leaves the primary and the secondary magnitude 0 (no built-in
\* formula is used instead), the tile and the target callback change nothing
\* else; and a callback that reserved the environment gives it back on every
\* exit path.
C20_CallbackFaults ==
    CallbackCalled =>
        /\ CannotReserve =>
              /\ cbR.reports # <<>>
              /\ ~cbR.called
              /\ cbR.damage.pvalue = 0 /\ cbR.damage.svalue = 0
        /\ cbR.reserved = EnvInUse

\* C20 witness: every environment is in use when the value callback of a
\* skill formula is asked for the damage of an armed player; the fault is
\* reported and the damage stays 0.
C20_Witness ==
    /\ cbR.op = "getCombatDamage"
    /\ CannotReserve /\ cbQ.armed /\ cbQ.cb.type = "COMBAT_FORMULA_SKILL"
    /\ cbR.reports = <<"Call stack overflow">> /\ ~cbR.called
    /\ cbR.damage.pvalue = 0 /\ cbR.damage.svalue = 0


(***************************************************************************)
(* Claims about the damage formulas (SpecDamage).                          *)
(***************************************************************************)
DamageAsked == dmgR.op = "getCombatDamage"

\* The integer v lies between the two bounds a and b, given in 1/CoefScale.
Within(v, a, b) ==
    /\ v * CoefScale >= (IF a <= b THEN a ELSE b)
    /\ v * CoefScale <= (IF a <= b THEN b ELSE a)

LevelFormula == 2 * DamageWorld(dmgQ.raw, dmgQ.armed).cr["p1"].level
                + 3 * DamageWorld(dmgQ.raw, dmgQ.armed).cr["p1"].magLevel

PlayerRule ==
    IF dmgQ.callback
    THEN dmgR.damage.pvalue \in -20 .. -19
    ELSE IF dmgQ.formulaType = "COMBAT_FORMULA_LEVELMAGIC"
    THEN Within(dmgR.damage.pvalue, LevelFormula * dmgQ.mina + dmgQ.minb,
                LevelFormula * dmgQ.maxa + dmgQ.maxb)
    ELSE TRUE

\* C21: getCombatDamage applies the first rule that applies: the fixed range
\* formula samples the primary value within [mina, maxa] whoever the caster
\* is; otherwise an actor with raw combat values gets a sample within them;
\* otherwise a player gets the value callback, level-magic (within
\* [(2*level + 3*magic)*mina + minb, (2*level + 3*magic)*maxa + maxb]) or
\* weapon-skill result; in every other case primary and secondary are 0.  The
\* result carries the combat type and the origin of the definition.
C21_FirstApplicableRule ==
    DamageAsked =>
        /\ dmgR.damage.ptype = dmgQ.combatType
        /\ dmgR.damage.origin = dmgQ.origin
        /\ IF dmgQ.formulaType = "COMBAT_FORMULA_DAMAGE"
           THEN Within(dmgR.damage.pvalue, dmgQ.mina, dmgQ.maxa)
           ELSE IF dmgQ.creature # NoCreature /\ dmgQ.raw
           THEN dmgR.damage.pvalue \in -7 .. -3
           ELSE IF dmgQ.creature = "p1"
           THEN PlayerRule
           ELSE dmgR.damage.pvalue = 0 /\ dmgR.damage.svalue = 0


(***************************************************************************)
(* Claims about the projection of an area (SpecList).                      *)
(***************************************************************************)
ListAsked == listR.op = "getCombatArea"

\* The grid getArea selects for the call.
Selected == getArea(listQ.area, listQ.centerPos, listQ.targetPos)

Projected(row, col) ==
    <<listQ.targetPos[1] - Selected.center[1] + col,
      listQ.targetPos[2] - Selected.center[2] + row, listQ.targetPos[3]>>

\* The active cells with a clear line of sight.
Surviving ==
    { c \in (0 .. Selected.rows - 1) \X (0 .. Selected.cols - 1) :
        Cell(Selected, c[1], c[2]) /\ Projected(c[1], c[2]) \notin listQ.blocked }

\* The place of a location in the row-major scan of the selected grid.
ScanIndex(pos) ==
    (pos[2] - (listQ.targetPos[2] - Selected.center[2])) * Selected.cols
    + (pos[1] - (listQ.targetPos[1] - Selected.center[1]))

Listed == { listR.vec[i] : i \in 1 .. Len(listR.vec) }

\* C22: with an area, getCombatArea returns in row-major scan order of the
\* selected grid exactly one location for each active cell (row, col) with a
\* clear line of sight, at (target.x - origin.x + col, target.y - origin.y +
\* row, target.z), made when the map has none; nothing else is listed or
\* made.  With no area it returns the one location of the target, made when
\* absent.  With target.z at or beyond the maximum layer it returns nothing
\* and makes nothing.
C22_ProjectedList ==
    ListAsked =>
        IF listQ.targetPos[3] >= MAP_MAX_LAYERS
        THEN listR.vec = <<>> /\ listR.tiles = listQ.tiles
        ELSE IF listQ.area.null
        THEN listR.vec = <<listQ.targetPos>>
             /\ listR.tiles = listQ.tiles \cup {listQ.targetPos}
        ELSE /\ Listed = { Projected(c[1], c[2]) : c \in Surviving }
             /\ Len(listR.vec) = Cardinality(Surviving)
             /\ \A i, j \in 1 .. Len(listR.vec) :
                   i < j => ScanIndex(listR.vec[i]) < ScanIndex(listR.vec[j])
             /\ listR.tiles = listQ.tiles \cup Listed

\* C22 witness: a grid with three active cells, one of them without line of
\* sight and one not yet in the map: two locations are listed, in scan order,
\* and the missing one was made.
C22_Witness ==
    /\ ListAsked
    /\ ~listQ.area.null /\ listQ.targetPos[3] < MAP_MAX_LAYERS
    /\ Cardinality(Surviving) = 2 /\ Len(listR.vec) = 2
    /\ \E c \in (0 .. Selected.rows - 1) \X (0 .. Selected.cols - 1) :
          Cell(Selected, c[1], c[2]) /\ Projected(c[1], c[2]) \in listQ.blocked
    /\ listR.tiles # listQ.tiles


(***************************************************************************)
(* Claims about the creatures an area resolution takes (SpecCombat).       *)
(***************************************************************************)
PositionCall == cq.call.op = "doCombatPosition"

\* The entries of the trace that show creature c was processed as a target:
\* a block call, a hit, a condition attached or dispelled, the target callback.
ProcessedAt(c) ==
    { i \in DOMAIN Log :
        /\ \/ Log[i].ev \in {"blockHit", "addCondition", "removeCondition", "targetCallback"}
           \/ IsHit(Log[i])
        /\ Log[i].target = c }

Processed(c) == ProcessedAt(c) # {}

FirstAt(c) == CHOOSE i \in ProcessedAt(c) : \A j \in ProcessedAt(c) : i <= j

StandingOn(pos) == run.tiles[pos].creatures

\* The creature targetCasterOrTopMost keeps on the tile at pos.
Kept(pos) ==
    IF cq.caster # NoCreature /\ cq.W.cr[cq.caster].pos = pos THEN cq.caster
    ELSE StandingOn(pos)[1]

\* C23: in an area resolution with targetCasterOrTopMost set, at most one
\* creature of a tile is processed: the caster when it stands on the tile,
\* otherwise the topmost creature.  With the flag unset every creature of the
\* tile is a candidate, taken in the tile's creature order.  In an aggressive
\* resolution the caster is never put in the damage set.
C23_CasterOrTopMost ==
    PositionCall =>
        /\ cq.C.params.targetCasterOrTopMost =>
              \A pos \in DOMAIN run.tiles : \A k \in DOMAIN StandingOn(pos) :
                  Processed(StandingOn(pos)[k]) => StandingOn(pos)[k] = Kept(pos)
        /\ ~cq.C.params.targetCasterOrTopMost =>
              \A pos \in DOMAIN run.tiles : \A k, l \in DOMAIN StandingOn(pos) :
                  /\ (k < l /\ Processed(StandingOn(pos)[k]) /\ Processed(StandingOn(pos)[l]))
                        => FirstAt(StandingOn(pos)[k]) < FirstAt(StandingOn(pos)[l])
                  /\ (~cq.C.params.aggressive /\ Processed(StandingOn(pos)[k]))
                        => Processed(StandingOn(pos)[l])
        /\ (cq.C.params.aggressive /\ Typed /\ cq.caster # NoCreature) =>
              \A i \in DOMAIN Log :
                  (Log[i].ev = "blockHit" \/ IsHit(Log[i])) => Log[i].target # cq.caster

\* C23 witness: the caster m1 stands below p2 on the tile of a typed area
\* resolution with the flag set that is not aggressive: m1 is hit, p2 is not
\* processed.
C23_Witness ==
    /\ PositionCall /\ Typed
    /\ cq.C.params.targetCasterOrTopMost /\ ~cq.C.params.aggressive
    /\ cq.caster = "m1" /\ StandingOn(North) = <<"p2", "m1">>
    /\ \E i \in ProcessedAt("m1") : IsHit(Log[i])
    /\ ~Processed("p2")


(***************************************************************************)
(* Claims about a resolution without a caster (SpecCombat).                *)
(***************************************************************************)
AbsentCaster == cq.call.op # "none" /\ cq.caster = NoCreature

\* C24: a resolution run with an absent caster never dereferences the caster:
\* on every path that attaches conditions (single-target and area, with and
\* without combat type) the owner of a condition is set from the caster only
\* when there is one, and without a caster the conditions are still attached
\* to the target.
C24_AbsentCasterNotDereferenced ==
    AbsentCaster =>
        /\ ~run.halted
        /\ \A i \in DOMAIN Log : Log[i].ev = "addCondition" => Log[i].owner = "unset"
        /\ (/\ PlainTargetCall
            /\ cq.C.params.origin # "ORIGIN_MELEE"
            /\ canCombat(cq.W, cq.C.params, cq.caster, cq.call.target, cq.call.ext)) =>
              \A k \in DOMAIN cq.C.params.conditionList :
                  cq.C.params.conditionList[k] \notin cq.W.cr[cq.call.target].immune
                  => Attached(cq.call.target, cq.C.params.conditionList[k])

=============================================================================
